---------------------------- MODULE Spec2Model ----------------------------
(***************************************************************************)
(* Model of the telecom-tracker parsing / aggregation pipeline             *)
(* (src/src/lib/excel-parser.ts) and of its upload handler                 *)
(* (src/unnamed/part_002), and of the merge of the uploaded results        *)
(* (src/src/app/page.tsx), of the loading flag of the upload component     *)
(* (src/src/components/FileUpload.tsx) and of the registration endpoint    *)
(* (src/src/app/api/auth/login/route.ts).                                  *)
(*                                                                         *)
(* Conventions                                                             *)
(*   - a JavaScript string is a sequence of one-character strings;         *)
(*   - a nullable value is <<>> (null / undefined) or <<v>>;               *)
(*   - an instant (Date) is its number of seconds since the epoch;         *)
(*   - a coordinate is an integer count of half-epsilons (0.00005 degree). *)
(***************************************************************************)
EXTENDS Integers, Sequences, FiniteSets, TLC

VARIABLES
    \* normalizePhoneNumber applied once and twice
    phone, once, twice, npc,
    \* parseExcelFile: parseListingSheet, parseSubscribersSheet,
    \* aggregateByPhoneNumber
    workbook, sheet, sheetCols, now, records, subscribers, fileResult, phoneMap, pos, pc,
    \* POST /api/upload
    selection, request, files, fileIdx, results, reads, parses, response, hpc,
    \* parseLocationString
    locText, locResult, lpc,
    \* identifyColumns
    headerList, colRoles, cpc,
    \* handleUploadComplete: the results as received, the same objects as the
    \* merge leaves them, the merged list, and the state of the page
    uploadResults, resultsNow, allPhoneNumbers, uploadedData, showUpload, mpc,
    \* detectFileType and findListingSheets on the sheet names of a workbook
    sheetNameList, fileType, listingSheets, spc,
    \* parseSubscribersSheet
    subsSheet, subsOut, bpos, bpc,
    \* the FileUpload component: the loading flag, its list of files, the upload
    \* requests started by processFiles, and whether the page shows the component
    isLoading, uploadedFiles, fetches, panelShown,
    \* POST /api/auth/register: the users file and the requests being served
    usersFile, registrations

normVars == <<phone, once, twice, npc>>
aggVars == <<workbook, sheet, sheetCols, now, records, subscribers, fileResult, phoneMap, pos, pc>>
postVars == <<selection, request, files, fileIdx, results, reads, parses, response, hpc>>
locVars == <<locText, locResult, lpc>>
colVars == <<headerList, colRoles, cpc>>
mergeVars == <<uploadResults, resultsNow, allPhoneNumbers, uploadedData, showUpload, mpc>>
\* the variables of the specifications added after SpecUpload
sheetVars == <<sheetNameList, fileType, listingSheets, spc>>
\* the variables added after those of SpecMerge
subsVars == <<subsSheet, subsOut, bpos, bpc>>
loadVars == <<isLoading, uploadedFiles, fetches, panelShown>>
regVars == <<usersFile, registrations>>
extraVars == <<sheetVars, subsVars, loadVars, regVars>>
funVars == <<locVars, colVars, mergeVars, extraVars>>
\* what a step on the sheet names leaves alone
notSheetVars ==
    <<normVars, aggVars, postVars, locVars, colVars, mergeVars, subsVars, loadVars, regVars>>
\* what a step of parseSubscribersSheet leaves alone
notSubsVars ==
    <<normVars, aggVars, postVars, locVars, colVars, mergeVars, sheetVars, loadVars, regVars>>
\* what a step of the FileUpload component leaves alone
notLoadVars ==
    <<normVars, aggVars, postVars, locVars, colVars, mergeVars, sheetVars, subsVars, regVars>>
\* what a step of a registration request leaves alone
notRegVars ==
    <<normVars, aggVars, postVars, locVars, colVars, mergeVars, sheetVars, subsVars, loadVars>>
vars == <<normVars, aggVars, postVars, funVars>>

-----------------------------------------------------------------------------
(* Strings *)

Null == <<>>
Some(v) == <<v>>
IsNull(x) == x = <<>>
Val(x) == x[1]

Digits == {"0", "1", "2", "3", "4", "5", "6", "7", "8", "9"}
IsDigit(c) == c \in Digits
\* characters removed by String.prototype.trim and matched by \s
IsSpace(c) == c \in {" ", "\t"}

RECURSIVE TrimStart(_)
TrimStart(s) ==
    IF s # <<>> /\ IsSpace(Head(s)) THEN TrimStart(Tail(s)) ELSE s

RECURSIVE TrimEnd(_)
TrimEnd(s) ==
    IF s # <<>> /\ IsSpace(s[Len(s)]) THEN TrimEnd(SubSeq(s, 1, Len(s) - 1)) ELSE s

\* String.prototype.trim
Trim(s) == TrimEnd(TrimStart(s))

\* String.prototype.startsWith
StartsWith(s, p) == Len(s) >= Len(p) /\ SubSeq(s, 1, Len(p)) = p

\* String.prototype.endsWith
EndsWith(s, p) == Len(s) >= Len(p) /\ SubSeq(s, Len(s) - Len(p) + 1, Len(s)) = p

\* String.prototype.substring(n)
Substring(s, n) == SubSeq(s, n + 1, Len(s))

\* replace(/\D/g, '')
RECURSIVE StripNonDigits(_)
StripNonDigits(s) ==
    IF s = <<>> THEN <<>>
    ELSE IF IsDigit(Head(s)) THEN <<Head(s)>> \o StripNonDigits(Tail(s))
         ELSE StripNonDigits(Tail(s))

UpperLetters ==
    <<"A", "B", "C", "D", "E", "F", "G", "H", "I", "J", "K", "L", "M",
      "N", "O", "P", "Q", "R", "S", "T", "U", "V", "W", "X", "Y", "Z",
      "À", "Ç", "È", "É">>
LowerLetters ==
    <<"a", "b", "c", "d", "e", "f", "g", "h", "i", "j", "k", "l", "m",
      "n", "o", "p", "q", "r", "s", "t", "u", "v", "w", "x", "y", "z",
      "à", "ç", "è", "é">>

LowerChar(c) ==
    IF \E i \in 1..Len(UpperLetters) : UpperLetters[i] = c
    THEN LowerLetters[CHOOSE i \in 1..Len(UpperLetters) : UpperLetters[i] = c]
    ELSE c

\* String.prototype.toLowerCase
ToLowerCase(s) == [i \in 1..Len(s) |-> LowerChar(s[i])]

DigitChar(d) ==
    CASE d = 0 -> "0" [] d = 1 -> "1" [] d = 2 -> "2" [] d = 3 -> "3" [] d = 4 -> "4"
      [] d = 5 -> "5" [] d = 6 -> "6" [] d = 7 -> "7" [] d = 8 -> "8" [] d = 9 -> "9"

\* String(n) for a non-negative integer n
RECURSIVE NumToString(_)
NumToString(n) ==
    IF n < 10 THEN <<DigitChar(n)>> ELSE NumToString(n \div 10) \o <<DigitChar(n % 10)>>

-----------------------------------------------------------------------------
(* Cell values: what sheet_to_json hands over for one cell *)

AbsentCell == [kind |-> "absent", str |-> <<>>, num |-> 0]
StrCell(s) == [kind |-> "str", str |-> s, num |-> 0]
NumCell(n) == [kind |-> "num", str |-> <<>>, num |-> n]

\* JavaScript truthiness: !v is true for undefined, null, '' and 0
Falsy(v) ==
    \/ v.kind = "absent"
    \/ v.kind = "str" /\ v.str = <<>>
    \/ v.kind = "num" /\ v.num = 0

\* String(v) for a truthy cell
ToStr(v) == IF v.kind = "num" THEN NumToString(v.num) ELSE v.str

-----------------------------------------------------------------------------
(* normalizePhoneNumber *)

CountryPrefix == <<"2", "3", "7">>

\* faulty variant: the prefix is looked for before trimming
normalizePhoneNumber_NoTrim(v) ==
    IF Falsy(v) THEN <<>>
    ELSE LET phoneStr == ToStr(v)
             stripped == IF StartsWith(phoneStr, CountryPrefix)
                         THEN Substring(phoneStr, 3) ELSE phoneStr
         IN  StripNonDigits(stripped)

normalizePhoneNumber(v) ==
    IF Falsy(v) THEN <<>>
    ELSE LET phoneStr == Trim(ToStr(v))
             stripped == IF StartsWith(phoneStr, CountryPrefix)
                         THEN Substring(phoneStr, 3) ELSE phoneStr
         IN  StripNonDigits(stripped)


-----------------------------------------------------------------------------
(* parseExcelDate *)

DigitVal(c) == CHOOSE d \in 0..9 : DigitChar(d) = c

\* parseInt of a run of digits
RECURSIVE ParseInt(_)
ParseInt(s) ==
    IF s = <<>> THEN 0 ELSE 10 * ParseInt(SubSeq(s, 1, Len(s) - 1)) + DigitVal(s[Len(s)])

AllDigits(s, from, to) == \A i \in from..to : IsDigit(s[i])

\* days from 1970-01-01 to the first day of month m (1..12) of year y
DaysToMonth(y, m) ==
    LET yy == IF m <= 2 THEN y - 1 ELSE y
        era == yy \div 400
        yoe == yy - era * 400
        mp == IF m > 2 THEN m - 3 ELSE m + 9
        doy == (153 * mp + 2) \div 5
        doe == yoe * 365 + yoe \div 4 - yoe \div 100 + doy
    IN  era * 146097 + doe - 719468

\* new Date(year, monthIndex, day, hours, minutes, seconds) in seconds since the
\* epoch, the local zone being UTC: a year 0..99 means 1900 + year, and month,
\* day and time fields outside their ranges carry over
NewDate(year, monthIndex, day, hours, minutes, seconds) ==
    LET full == IF year >= 0 /\ year <= 99 THEN 1900 + year ELSE year
        y == full + monthIndex \div 12
        m == (monthIndex % 12) + 1
    IN  (DaysToMonth(y, m) + day - 1) * 86400 + hours * 3600 + minutes * 60 + seconds

\* length of the run of white space of s that starts at index p
RECURSIVE SpaceRun(_, _)
SpaceRun(s, p) ==
    IF p <= Len(s) /\ IsSpace(s[p]) THEN 1 + SpaceRun(s, p + 1) ELSE 0

\* (\d{2})<sep>(\d{2})<sep>(\d{4})\s+(\d{2}):(\d{2}):(\d{2}) matches s at index i
DateTimeAt(s, i, sep) ==
    LET j == i + 10 + SpaceRun(s, i + 10)
    IN  /\ i + 9 <= Len(s)
        /\ AllDigits(s, i, i + 1) /\ s[i + 2] = sep
        /\ AllDigits(s, i + 3, i + 4) /\ s[i + 5] = sep
        /\ AllDigits(s, i + 6, i + 9)
        /\ SpaceRun(s, i + 10) >= 1
        /\ j + 7 <= Len(s)
        /\ AllDigits(s, j, j + 1) /\ s[j + 2] = ":"
        /\ AllDigits(s, j + 3, j + 4) /\ s[j + 5] = ":"
        /\ AllDigits(s, j + 6, j + 7)

\* the first index from i on at which the expression matches (0 if there is none)
RECURSIVE FirstDateTime(_, _, _)
FirstDateTime(s, i, sep) ==
    IF i > Len(s) THEN 0
    ELSE IF DateTimeAt(s, i, sep) THEN i ELSE FirstDateTime(s, i + 1, sep)

\* the groups of the leftmost match, turned into a Date; Null if nothing matches
MatchDayMonthYear(s, sep) ==
    LET i == FirstDateTime(s, 1, sep)
        j == i + 10 + SpaceRun(s, i + 10)
    IN  IF i = 0 THEN Null
        ELSE Some(NewDate(ParseInt(SubSeq(s, i + 6, i + 9)),
                          ParseInt(SubSeq(s, i + 3, i + 4)) - 1,
                          ParseInt(SubSeq(s, i, i + 1)),
                          ParseInt(SubSeq(s, j, j + 1)),
                          ParseInt(SubSeq(s, j + 3, j + 4)),
                          ParseInt(SubSeq(s, j + 6, j + 7))))

IsLeap(y) == y % 4 = 0 /\ (y % 100 # 0 \/ y % 400 = 0)

DaysInMonth(y, m) ==
    IF m = 2 THEN (IF IsLeap(y) THEN 29 ELSE 28)
    ELSE IF m \in {4, 6, 9, 11} THEN 30 ELSE 31

\* new Date(string) for the ISO forms YYYY-MM-DD and YYYY-MM-DDTHH:MM:SS; on a
\* string without any digit the result is an Invalid Date, and the caller's
\* isNaN test turns it into null
IsoDate(s) ==
    LET dateOk == /\ Len(s) >= 10
                  /\ AllDigits(s, 1, 4) /\ s[5] = "-"
                  /\ AllDigits(s, 6, 7) /\ s[8] = "-"
                  /\ AllDigits(s, 9, 10)
        timeOk == /\ Len(s) = 19
                  /\ s[11] = "T"
                  /\ AllDigits(s, 12, 13) /\ s[14] = ":"
                  /\ AllDigits(s, 15, 16) /\ s[17] = ":"
                  /\ AllDigits(s, 18, 19)
        y == ParseInt(SubSeq(s, 1, 4))
        m == ParseInt(SubSeq(s, 6, 7))
        d == ParseInt(SubSeq(s, 9, 10))
        H == IF Len(s) = 19 THEN ParseInt(SubSeq(s, 12, 13)) ELSE 0
        M == IF Len(s) = 19 THEN ParseInt(SubSeq(s, 15, 16)) ELSE 0
        S == IF Len(s) = 19 THEN ParseInt(SubSeq(s, 18, 19)) ELSE 0
    IN  IF /\ dateOk
           /\ (Len(s) = 10 \/ timeOk)
           /\ m \in 1..12 /\ d \in 1..DaysInMonth(y, m)
           /\ H \in 0..23 /\ M \in 0..59 /\ S \in 0..59
        THEN Some((DaysToMonth(y, m) + d - 1) * 86400 + H * 3600 + M * 60 + S)
        ELSE Null

\* XLSX.SSF.parse_date_code(n) for a whole number of days, then new Date(y, m - 1, d):
\* no date for a negative serial or one after 9999-12-31 (2958465); 1970-01-01 is
\* serial 25569; serials up to 60 count from 1899-12-31 (the 1900 leap year of
\* the serial format)
DateFromSerial(n) ==
    IF n < 0 \/ n > 2958465 THEN Null
    ELSE IF n <= 60 THEN Some((n - 25569 + 1) * 86400)
    ELSE Some((n - 25569) * 86400)

DateCell(t) == [kind |-> "date", str |-> <<>>, num |-> t]

parseExcelDate(v) ==
    IF Falsy(v) THEN Null
    ELSE IF v.kind = "date" THEN Some(v.num)
    ELSE IF v.kind = "num" THEN DateFromSerial(v.num)
    ELSE IF ~IsNull(MatchDayMonthYear(v.str, "/")) THEN MatchDayMonthYear(v.str, "/")
    ELSE IF ~IsNull(MatchDayMonthYear(v.str, "-")) THEN MatchDayMonthYear(v.str, "-")
    ELSE IsoDate(v.str)

\* the civil date of the day number d (days since 1970-01-01): the inverse of
\* DaysToMonth
CivilDate(d) ==
    LET z == d + 719468
        era == z \div 146097
        doe == z - era * 146097
        yoe == (doe - doe \div 1460 + doe \div 36524 - doe \div 146096) \div 365
        doy == doe - (365 * yoe + yoe \div 4 - yoe \div 100)
        mp == (5 * doy + 2) \div 153
        m == IF mp < 10 THEN mp + 3 ELSE mp - 9
    IN  [year |-> yoe + era * 400 + (IF m <= 2 THEN 1 ELSE 0),
         month |-> m,
         day |-> doy - (153 * mp + 2) \div 5 + 1]

\* n written with at least two digits
Pad2(n) == IF n < 10 THEN <<"0">> \o NumToString(n) ELSE NumToString(n)

\* Date.prototype.toISOString: YYYY-MM-DDTHH:MM:SS.000Z
ToISOString(t) ==
    LET d == t \div 86400
        s == t % 86400
        c == CivilDate(d)
    IN  NumToString(c.year) \o <<"-">> \o Pad2(c.month) \o <<"-">>
            \o Pad2(c.day) \o <<"T">> \o Pad2(s \div 3600) \o <<":">>
            \o Pad2((s % 3600) \div 60) \o <<":">> \o Pad2(s % 60)
            \o <<".", "0", "0", "0", "Z">>

\* new Date(string).getTime() for the form toISOString writes; Null stands for NaN
IsoInstant(s) ==
    IF /\ Len(s) = 24
       /\ SubSeq(s, 20, 24) = <<".", "0", "0", "0", "Z">>
    THEN IsoDate(SubSeq(s, 1, 19))
    ELSE Null

\* Date.prototype.toLocaleDateString('fr-FR'): DD/MM/YYYY
ToLocaleDateStringFr(t) ==
    LET c == CivilDate(t \div 86400)
    IN  Pad2(c.day) \o <<"/">> \o Pad2(c.month) \o <<"/">> \o NumToString(c.year)

-----------------------------------------------------------------------------
(* parseLocationString *)

StrLongLower == <<"l", "o", "n", "g", ":">>
StrLongExact == <<"L", "o", "n", "g", ":">>
StrLatLower == <<"l", "a", "t", ":">>
StrCellLower == <<"c", "e", "l", "l", ":">>
StrAzimutLower == <<"a", "z", "i", "m", "u", "t", ":">>
StrSiteInconnu == <<"S", "i", "t", "e", " ", "i", "n", "c", "o", "n", "n", "u">>

\* the lower-case literal p stands at index i of s, letter case ignored (/i)
MatchesAt(s, i, p) ==
    /\ i + Len(p) - 1 <= Len(s)
    /\ ToLowerCase(SubSeq(s, i, i + Len(p) - 1)) = p

\* the literal p stands at index i of s
StandsAt(s, i, p) ==
    /\ i + Len(p) - 1 <= Len(s)
    /\ SubSeq(s, i, i + Len(p) - 1) = p

\* the character class [\d.-]
IsCoordChar(c) == IsDigit(c) \/ c \in {".", "-"}

\* index after the longest run of [\d.-] that starts at index i
RECURSIVE CoordRunEnd(_, _)
CoordRunEnd(s, i) ==
    IF i <= Len(s) /\ IsCoordChar(s[i]) THEN CoordRunEnd(s, i + 1) ELSE i

\* index after the longest run of [^\s)] that starts at index i
RECURSIVE WordRunEnd(_, _)
WordRunEnd(s, i) ==
    IF i <= Len(s) /\ ~IsSpace(s[i]) /\ s[i] # ")" THEN WordRunEnd(s, i + 1) ELSE i

\* index after the longest run of digits that starts at index i
RECURSIVE DigitRunEnd(_, _)
DigitRunEnd(s, i) ==
    IF i <= Len(s) /\ IsDigit(s[i]) THEN DigitRunEnd(s, i + 1) ELSE i

\* Long:\s*([\d.-]+)\s*Lat:\s*([\d.-]+) tried at index i: the start and the end
\* of both groups.  The groups and the white space are runs of characters that
\* cannot start 'Lat:', so the greedy match is the only one.
LongLatAt(s, i) ==
    LET a1 == i + 5 + SpaceRun(s, i + 5)
        b1 == CoordRunEnd(s, a1)
        l == b1 + SpaceRun(s, b1)
        a2 == l + 4 + SpaceRun(s, l + 4)
        b2 == CoordRunEnd(s, a2)
    IN  [ok |-> /\ MatchesAt(s, i, StrLongLower)
                /\ b1 > a1
                /\ MatchesAt(s, l, StrLatLower)
                /\ b2 > a2,
         long |-> SubSeq(s, a1, b1 - 1),
         lat |-> SubSeq(s, a2, b2 - 1)]

\* the first index from i on at which the expression matches (0 if there is none)
RECURSIVE FirstLongLat(_, _)
FirstLongLat(s, i) ==
    IF i > Len(s) THEN 0
    ELSE IF LongLatAt(s, i).ok THEN i ELSE FirstLongLat(s, i + 1)

\* locationStr.match(LOCATION_REGEX): the groups of the leftmost match, or Null
LocationMatch(s) ==
    IF FirstLongLat(s, 1) = 0 THEN Null ELSE Some(LongLatAt(s, FirstLongLat(s, 1)))

\* 10^k
RECURSIVE Pow10(_)
Pow10(k) == IF k = 0 THEN 1 ELSE 10 * Pow10(k - 1)

\* parseFloat of a string made of [\d.-]: the longest prefix that is a decimal
\* literal (an optional '-', digits, an optional '.' and digits, one digit at
\* least) gives the number, in coordinate units; Null stands for NaN
ParseFloat(tok) ==
    LET neg == tok # <<>> /\ tok[1] = "-"
        a == IF neg THEN 2 ELSE 1
        b == DigitRunEnd(tok, a)
        hasDot == b <= Len(tok) /\ tok[b] = "."
        c == IF hasDot THEN DigitRunEnd(tok, b + 1) ELSE b
        int == SubSeq(tok, a, b - 1)
        frac == IF hasDot THEN SubSeq(tok, b + 1, c - 1) ELSE <<>>
        magnitude == ParseInt(int) * 20000 + (ParseInt(frac) * 20000) \div Pow10(Len(frac))
    IN  IF int = <<>> /\ frac = <<>> THEN Null
        ELSE Some(IF neg THEN 0 - magnitude ELSE magnitude)

\* 90 and 180 degrees in coordinate units
MaxLatitude == 90 * 20000
MaxLongitude == 180 * 20000

RECURSIVE IndexFrom(_, _, _)
IndexFrom(s, p, i) ==
    IF i + Len(p) - 1 > Len(s) THEN 0
    ELSE IF StandsAt(s, i, p) THEN i ELSE IndexFrom(s, p, i + 1)

\* index of the first occurrence of the literal p in s (0 if there is none)
IndexOf(s, p) == IndexFrom(s, p, 1)

\* index of the first occurrence of the lower-case literal p in s, letter case
\* ignored (0 if there is none)
IndexOfIgnoringCase(s, p) == IndexOf(ToLowerCase(s), p)

\* s.split(p)[0]
BeforeFirst(s, p) ==
    IF IndexOf(s, p) = 0 THEN s ELSE SubSeq(s, 1, IndexOf(s, p) - 1)

\* the site name: the text before the first parenthesis, else before 'Long:'
SiteName(s) ==
    LET first == Trim(BeforeFirst(s, <<"(">>))
        second == IF first = <<>> \/ IndexOf(ToLowerCase(first), StrLongLower) # 0
                  THEN Trim(BeforeFirst(s, StrLongExact)) ELSE first
    IN  IF second = <<>> THEN StrSiteInconnu ELSE second

\* /Cell:\s*([^\s)]+)/i tried at index i
CellAt(s, i) ==
    LET a == i + 5 + SpaceRun(s, i + 5)
    IN  [ok |-> MatchesAt(s, i, StrCellLower) /\ WordRunEnd(s, a) > a,
         id |-> SubSeq(s, a, WordRunEnd(s, a) - 1)]

RECURSIVE FirstCell(_, _)
FirstCell(s, i) ==
    IF i > Len(s) THEN 0
    ELSE IF CellAt(s, i).ok THEN i ELSE FirstCell(s, i + 1)

\* the group of the leftmost match, '' without a match
CellId(s) == IF FirstCell(s, 1) = 0 THEN <<>> ELSE CellAt(s, FirstCell(s, 1)).id

\* /Azimut:\s*([^\s)]*)/i, then azimuthMatch[1] || '-'; '-' without a match
Azimuth(s) ==
    LET i == IndexOfIgnoringCase(s, StrAzimutLower)
        a == i + 7 + SpaceRun(s, i + 7)
        word == SubSeq(s, a, WordRunEnd(s, a) - 1)
    IN  IF i = 0 \/ word = <<>> THEN <<"-">> ELSE word

\* faulty variant: the latitude is checked against the longitude's range
OutOfRange_LongitudeRange(latitude, longitude) ==
    \/ latitude < 0 - MaxLongitude \/ latitude > MaxLongitude
    \/ longitude < 0 - MaxLongitude \/ longitude > MaxLongitude

OutOfRange(latitude, longitude) ==
    \/ latitude < 0 - MaxLatitude \/ latitude > MaxLatitude
    \/ longitude < 0 - MaxLongitude \/ longitude > MaxLongitude

\* the result is Null or a location: match, parseFloat, split, trim and
\* toLowerCase are total on strings, so no step can throw
parseLocationString(locationStr) ==
    IF \/ locationStr = <<>>
       \/ locationStr = <<"-", "-">>
       \/ Trim(locationStr) = <<>>
       \/ locationStr = StrSiteInconnu
    THEN Null
    ELSE LET match == LocationMatch(locationStr)
         IN  IF IsNull(match) THEN Null
             ELSE LET longitude == ParseFloat(Val(match).long)
                      latitude == ParseFloat(Val(match).lat)
                  IN  IF IsNull(longitude) \/ IsNull(latitude) THEN Null
                      ELSE IF OutOfRange(Val(latitude), Val(longitude)) THEN Null
                      ELSE Some([latitude |-> Val(latitude),
                                 longitude |-> Val(longitude),
                                 siteName |-> SiteName(locationStr),
                                 cellId |-> CellId(locationStr),
                                 azimuth |-> Azimuth(locationStr)])

-----------------------------------------------------------------------------
(* normalizeString, identifyColumns *)

\* the combining marks U+0300..U+036F that the model knows: grave, acute,
\* circumflex, diaeresis and cedilla
CombiningMarks == {"U+0300", "U+0301", "U+0302", "U+0308", "U+0327"}

\* canonical decomposition (NFD) of one lower-case character
Decompose(c) ==
    CASE c = "à" -> <<"a", "U+0300">>
      [] c = "â" -> <<"a", "U+0302">>
      [] c = "ç" -> <<"c", "U+0327">>
      [] c = "è" -> <<"e", "U+0300">>
      [] c = "é" -> <<"e", "U+0301">>
      [] c = "ê" -> <<"e", "U+0302">>
      [] c = "ë" -> <<"e", "U+0308">>
      [] c = "î" -> <<"i", "U+0302">>
      [] c = "ô" -> <<"o", "U+0302">>
      [] c = "ù" -> <<"u", "U+0300">>
      [] OTHER -> <<c>>

\* String.prototype.normalize('NFD')
RECURSIVE NormalizeNFD(_)
NormalizeNFD(s) ==
    IF s = <<>> THEN <<>> ELSE Decompose(Head(s)) \o NormalizeNFD(Tail(s))

\* replace(/[\u0300-\u036f]/g, '')
StripMarks(s) == SelectSeq(s, LAMBDA c : c \notin CombiningMarks)

normalizeString(str) == StripMarks(NormalizeNFD(ToLowerCase(str)))

\* String.prototype.includes
Includes(s, p) == IndexOf(s, p) # 0

StrLocalisation == <<"l", "o", "c", "a", "l", "i", "s", "a", "t", "i", "o", "n">>
StrImei == <<"i", "m", "e", "i">>
StrNumero == <<"n", "u", "m", "e", "r", "o">>
StrNumeroAppelant == StrNumero \o <<" ", "a", "p", "p", "e", "l", "a", "n", "t">>
StrNumeroEmetteur == StrNumero \o <<" ", "e", "m", "e", "t", "t", "e", "u", "r">>
StrNumeroAppele == StrNumero \o <<" ", "a", "p", "p", "e", "l", "e">>
StrNumeroRecepteur == StrNumero \o <<" ", "r", "e", "c", "e", "p", "t", "e", "u", "r">>
StrDate == <<"d", "a", "t", "e">>
StrDuree == <<"d", "u", "r", "e", "e">>

NoColumns ==
    [callerNumberCol |-> Null, calledNumberCol |-> Null, imeiCol |-> Null,
     dateCol |-> Null, durationCol |-> Null, locationCol |-> Null]

\* faulty variant: the date rule is tried before the localisation rule
AssignColumn_DateFirst(found, col) ==
    LET normalized == normalizeString(col)
    IN  IF Includes(normalized, StrDate) THEN [found EXCEPT !.dateCol = Some(col)]
        ELSE IF Includes(normalized, StrLocalisation)
             THEN [found EXCEPT !.locationCol = Some(col)]
        ELSE IF Includes(normalized, StrImei) THEN [found EXCEPT !.imeiCol = Some(col)]
        ELSE IF \/ StartsWith(normalized, StrNumeroAppelant)
                \/ StartsWith(normalized, StrNumeroEmetteur)
             THEN [found EXCEPT !.callerNumberCol = Some(col)]
        ELSE IF \/ StartsWith(normalized, StrNumeroAppele)
                \/ StartsWith(normalized, StrNumeroRecepteur)
             THEN [found EXCEPT !.calledNumberCol = Some(col)]
        ELSE IF Includes(normalized, StrDuree) THEN [found EXCEPT !.durationCol = Some(col)]
        ELSE found

\* one iteration of the loop over the headers: the if / else-if chain
AssignColumn(found, col) ==
    LET normalized == normalizeString(col)
    IN  IF Includes(normalized, StrLocalisation)
        THEN [found EXCEPT !.locationCol = Some(col)]
        ELSE IF Includes(normalized, StrImei) THEN [found EXCEPT !.imeiCol = Some(col)]
        ELSE IF \/ StartsWith(normalized, StrNumeroAppelant)
                \/ StartsWith(normalized, StrNumeroEmetteur)
             THEN [found EXCEPT !.callerNumberCol = Some(col)]
        ELSE IF \/ StartsWith(normalized, StrNumeroAppele)
                \/ StartsWith(normalized, StrNumeroRecepteur)
             THEN [found EXCEPT !.calledNumberCol = Some(col)]
        ELSE IF Includes(normalized, StrDate) THEN [found EXCEPT !.dateCol = Some(col)]
        ELSE IF Includes(normalized, StrDuree) THEN [found EXCEPT !.durationCol = Some(col)]
        ELSE found

RECURSIVE AssignColumns(_, _)
AssignColumns(found, columns) ==
    IF columns = <<>> THEN found
    ELSE AssignColumns(AssignColumn(found, Head(columns)), Tail(columns))

identifyColumns(columns) == AssignColumns(NoColumns, columns)

-----------------------------------------------------------------------------
(* parseListingSheet *)

\* sheet_to_json(worksheet, {defval: ''}): the rows under the header row, each an
\* object keyed by the headers; headers keeps the order of the keys
SheetData(headers, rows) == [headers |-> headers, rows |-> rows]

NoSheet == SheetData(<<>>, <<>>)

\* String(cell || '').trim()
CellText(v) == IF Falsy(v) THEN <<>> ELSE Trim(ToStr(v))

\* dateTime: dateTime || new Date()
RecordDate(parsed, clock) == IF IsNull(parsed) THEN Some(clock) ELSE parsed

\* the fields extracted from a row; id stands for the identifier built from the
\* row index, clock is the instant new Date() returns
RowRecord(cols, row, id, clock) ==
    LET callerNumber == IF ~IsNull(cols.callerNumberCol)
                        THEN normalizePhoneNumber(row[Val(cols.callerNumberCol)]) ELSE <<>>
        calledNumber == IF ~IsNull(cols.calledNumberCol)
                        THEN normalizePhoneNumber(row[Val(cols.calledNumberCol)]) ELSE <<>>
        imei == IF ~IsNull(cols.imeiCol) THEN CellText(row[Val(cols.imeiCol)]) ELSE <<>>
        dateTime == IF ~IsNull(cols.dateCol)
                    THEN parseExcelDate(row[Val(cols.dateCol)]) ELSE Null
        duration == IF ~IsNull(cols.durationCol)
                    THEN CellText(row[Val(cols.durationCol)]) ELSE <<>>
        locationStr == IF ~IsNull(cols.locationCol)
                       THEN CellText(row[Val(cols.locationCol)]) ELSE <<>>
    IN  [id |-> id, callerNumber |-> callerNumber, calledNumber |-> calledNumber,
         imei |-> imei, dateTime |-> RecordDate(dateTime, clock), duration |-> duration,
         location |-> parseLocationString(locationStr), rawLocation |-> locationStr]

\* faulty variant: only rows with a caller number are kept
RowEmitted_CallerOnly(record) == record.callerNumber # <<>>

\* if (callerNumber || calledNumber) records.push(...)
RowEmitted(record) == record.callerNumber # <<>> \/ record.calledNumber # <<>>

\* const columns = Object.keys(data[0]); identifyColumns(columns)
ListingColumns(data) ==
    IF data.rows = <<>> THEN NoColumns ELSE identifyColumns(data.headers)

-----------------------------------------------------------------------------
(* detectFileType, findListingSheets, findSubscribersSheet, parseSubscribersSheet *)

StrListingAppel == <<"l", "i", "s", "t", "i", "n", "g", " ", "a", "p", "p", "e", "l">>
StrListingSms == <<"l", "i", "s", "t", "i", "n", "g", " ", "s", "m", "s">>
StrListing == <<"l", "i", "s", "t", "i", "n", "g">>
StrImeiPartage == <<"i", "m", "e", "i", " ", "p", "a", "r", "t", "a", "g", "e">>
StrIdentification ==
    <<"i", "d", "e", "n", "t", "i", "f", "i", "c", "a", "t", "i", "o", "n">>

\* faulty variant: the IMEI test comes before the NUMERO test
detectFileType_ImeiFirst(sheetNames) ==
    LET normalizedNames == [i \in 1..Len(sheetNames) |-> normalizeString(sheetNames[i])]
        Some_(P(_)) == \E i \in 1..Len(normalizedNames) : P(normalizedNames[i])
    IN  IF Some_(LAMBDA n : Includes(n, StrImeiPartage)) THEN "IMEI"
        ELSE IF Some_(LAMBDA n : Includes(n, StrListingAppel) \/ Includes(n, StrListingSms))
        THEN "NUMERO"
        ELSE "CC"

detectFileType(sheetNames) ==
    LET normalizedNames == [i \in 1..Len(sheetNames) |-> normalizeString(sheetNames[i])]
        Some_(P(_)) == \E i \in 1..Len(normalizedNames) : P(normalizedNames[i])
    IN  IF Some_(LAMBDA n : Includes(n, StrListingAppel) \/ Includes(n, StrListingSms))
        THEN "NUMERO"
        ELSE IF Some_(LAMBDA n : Includes(n, StrImeiPartage)) THEN "IMEI"
        ELSE "CC"

\* faulty variant: the fallback does not look at the calls sheet found so far
ScanListingName_FallbackAlways(found, name) ==
    LET normalized == normalizeString(name)
        appel == IF Includes(normalized, StrListingAppel)
                 THEN [found EXCEPT !.calls = Some(name)] ELSE found
        sms == IF Includes(normalized, StrListingSms)
               THEN [appel EXCEPT !.sms = Some(name)] ELSE appel
    IN  IF normalized = StrListing THEN [sms EXCEPT !.calls = Some(name)] ELSE sms

\* one iteration of the loop of findListingSheets over the sheet names
ScanListingName(found, name) ==
    LET normalized == normalizeString(name)
        appel == IF Includes(normalized, StrListingAppel)
                 THEN [found EXCEPT !.calls = Some(name)] ELSE found
        sms == IF Includes(normalized, StrListingSms)
               THEN [appel EXCEPT !.sms = Some(name)] ELSE appel
    IN  IF normalized = StrListing /\ (IsNull(sms.calls) \/ Val(sms.calls) = <<>>)
        THEN [sms EXCEPT !.calls = Some(name)] ELSE sms

RECURSIVE ScanListingNames(_, _)
ScanListingNames(found, names) ==
    IF names = <<>> THEN found
    ELSE ScanListingNames(ScanListingName(found, Head(names)), Tail(names))

findListingSheets(sheetNames) ==
    ScanListingNames([calls |-> Null, sms |-> Null], sheetNames)

\* faulty variant: the first sheet is taken for the identification sheet
findSubscribersSheet_FirstSheet(sheetNames) ==
    IF sheetNames = <<>> THEN Null ELSE Some(sheetNames[1])

\* the first sheet name whose normalized form contains 'identification'
findSubscribersSheet(sheetNames) ==
    LET Hit(i) == Includes(normalizeString(sheetNames[i]), StrIdentification)
    IN  IF \E i \in 1..Len(sheetNames) : Hit(i)
        THEN Some(sheetNames[CHOOSE i \in 1..Len(sheetNames) :
                                 Hit(i) /\ \A j \in 1..(i - 1) : ~Hit(j)])
        ELSE Null

\* a name used as a condition: null and '' are falsy
Truthy(name) == ~IsNull(name) /\ Val(name) # <<>>

StrNom == <<"n", "o", "m">>
StrPrenom == <<"p", "r", "e", "n", "o", "m">>
StrNaissance == <<"n", "a", "i", "s", "s", "a", "n", "c", "e">>
StrCni == <<"c", "n", "i">>
StrExpiration == <<"e", "x", "p", "i", "r", "a", "t", "i", "o", "n">>
StrAdresse == <<"a", "d", "r", "e", "s", "s", "e">>

NewSubscriber ==
    [number |-> <<>>, fullName |-> <<>>, birthDate |-> Null, cniNumber |-> Null,
     cniExpiration |-> Null, address |-> Null]

\* date ? date.toLocaleDateString('fr-FR') : undefined
LocaleDate(v) ==
    IF IsNull(parseExcelDate(v)) THEN Null
    ELSE Some(ToLocaleDateStringFr(Val(parseExcelDate(v))))

\* one iteration of the loop over Object.entries(rowData)
SubscriberField(subscriber, key, value) ==
    LET normalizedKey == normalizeString(key)
    IN  IF \/ normalizedKey = StrNumero
           \/ StartsWith(normalizedKey, StrNumero) /\ ~Includes(normalizedKey, StrCni)
        THEN IF subscriber.number = <<>>
             THEN [subscriber EXCEPT !.number = normalizePhoneNumber(value)]
             ELSE subscriber
        ELSE IF Includes(normalizedKey, StrNom) /\ Includes(normalizedKey, StrPrenom)
             THEN [subscriber EXCEPT !.fullName = CellText(value)]
        ELSE IF Includes(normalizedKey, StrDate) /\ Includes(normalizedKey, StrNaissance)
             THEN [subscriber EXCEPT !.birthDate = LocaleDate(value)]
        ELSE IF Includes(normalizedKey, StrNumero) /\ Includes(normalizedKey, StrCni)
             THEN [subscriber EXCEPT !.cniNumber = Some(CellText(value))]
        ELSE IF Includes(normalizedKey, StrExpiration)
             THEN [subscriber EXCEPT !.cniExpiration = LocaleDate(value)]
        ELSE IF normalizedKey = StrAdresse
             THEN [subscriber EXCEPT !.address = Some(CellText(value))]
        ELSE subscriber

RECURSIVE SubscriberFields(_, _, _)
SubscriberFields(subscriber, keys, row) ==
    IF keys = <<>> THEN subscriber
    ELSE SubscriberFields(SubscriberField(subscriber, Head(keys), row[Head(keys)]),
                          Tail(keys), row)

RECURSIVE SubscriberRows(_, _)
SubscriberRows(headers, rows) ==
    IF rows = <<>> THEN <<>>
    ELSE LET subscriber == SubscriberFields(NewSubscriber, headers, Head(rows))
         IN  (IF subscriber.number # <<>> THEN <<subscriber>> ELSE <<>>)
                 \o SubscriberRows(headers, Tail(rows))

parseSubscribersSheet(data) == SubscriberRows(data.headers, data.rows)

\* faulty variant: no record is stamped
StampSms_Never(recs) == recs

\* faulty variant: the records of the calls pass are stamped too
StampSms_AllPasses(recs) ==
    [i \in 1..Len(recs) |->
        IF recs[i].duration = <<>>
        THEN [recs[i] EXCEPT !.duration = <<"S", "M", "S">>]
        ELSE recs[i]]

\* smsRecords.forEach(record => { if (!record.duration || record.duration === '')
\* record.duration = 'SMS' }) on the records of the SMS pass
StampSms(recs) ==
    [i \in 1..Len(recs) |->
        IF recs[i].id.pass = "sms" /\ recs[i].duration = <<>>
        THEN [recs[i] EXCEPT !.duration = <<"S", "M", "S">>]
        ELSE recs[i]]

-----------------------------------------------------------------------------
(* aggregateByPhoneNumber *)

\* 0.0001 degree, in coordinate units of 0.00005 degree
Epsilon == 2

\* shortest caller number that gets an aggregate
MinNumberLength == 6

Abs(x) == IF x < 0 THEN -x ELSE x

StrSMS == <<"S", "M", "S">>
Strsms == <<"s", "m", "s">>

\* faulty variant: the marker is compared case-sensitively
IsSmsDuration_Exact(duration) == duration = StrSMS

\* record.duration === 'SMS' || record.duration.toLowerCase() === 'sms'
IsSmsDuration(duration) == duration = StrSMS \/ ToLowerCase(duration) = Strsms

\* faulty variant: a number of exactly six digits is dropped too
TooShort_OffByOne(number) == number = <<>> \/ Len(number) <= MinNumberLength

\* !number || number.length < 6
TooShort(number) == number = <<>> \/ Len(number) < MinNumberLength

\* index of the entry keyed number in the map (0: no such key)
MapIndex(map, number) ==
    IF \E i \in 1..Len(map) : map[i].number = number
    THEN CHOOSE i \in 1..Len(map) : map[i].number = number
    ELSE 0

\* faulty variant: a subscriber matches when its number starts with the number
SubscriberOf_Prefix(subs, number) ==
    IF \E i \in 1..Len(subs) : StartsWith(subs[i].number, number)
    THEN Some(subs[CHOOSE i \in 1..Len(subs) :
                       /\ StartsWith(subs[i].number, number)
                       /\ \A j \in (i + 1)..Len(subs) : ~StartsWith(subs[j].number, number)])
    ELSE Null

\* new Map(subscribers.map(s => [s.number, s])).get(number): the last subscriber
\* listed with the number, Null if there is none
SubscriberOf(subs, number) ==
    IF \E i \in 1..Len(subs) : subs[i].number = number
    THEN Some(subs[CHOOSE i \in 1..Len(subs) :
                       /\ subs[i].number = number
                       /\ \A j \in (i + 1)..Len(subs) : subs[j].number # number])
    ELSE Null

\* identity: subscriber?.fullName
NewPhoneData(number, subs) ==
    [number |-> number,
     identity |-> IF IsNull(SubscriberOf(subs, number)) THEN Null
                  ELSE Some(Val(SubscriberOf(subs, number)).fullName),
     callCount |-> 0, smsCount |-> 0,
     firstActivity |-> Null, lastActivity |-> Null,
     locations |-> <<>>, records |-> <<>>]

\* faulty variant: only identical coordinates count as the same location
LocationExists_Exact(locations, loc) ==
    \E i \in 1..Len(locations) :
        /\ locations[i].latitude = loc.latitude
        /\ locations[i].longitude = loc.longitude

\* faulty variant: only the location listed last is compared
LocationExists_LastOnly(locations, loc) ==
    /\ locations # <<>>
    /\ Abs(locations[Len(locations)].latitude - loc.latitude) < Epsilon
    /\ Abs(locations[Len(locations)].longitude - loc.longitude) < Epsilon

\* phoneData.locations.some(loc => |dlat| < 0.0001 && |dlng| < 0.0001)
LocationExists(locations, loc) ==
    \E i \in 1..Len(locations) :
        /\ Abs(locations[i].latitude - loc.latitude) < Epsilon
        /\ Abs(locations[i].longitude - loc.longitude) < Epsilon

\* faulty variant: firstActivity keeps the first timestamp seen instead of the smallest
FoldInto_FirstSeen(phoneData, record) ==
    LET sms == IsSmsDuration(record.duration)
        t == record.dateTime
        first == IF ~IsNull(t) /\ IsNull(phoneData.firstActivity)
                 THEN t ELSE phoneData.firstActivity
        last == IF ~IsNull(t) /\ (IsNull(phoneData.lastActivity)
                                    \/ Val(t) > Val(phoneData.lastActivity))
                THEN t ELSE phoneData.lastActivity
        locs == IF ~IsNull(record.location)
                   /\ ~LocationExists(phoneData.locations, Val(record.location))
                THEN Append(phoneData.locations, Val(record.location))
                ELSE phoneData.locations
    IN  [phoneData EXCEPT
            !.smsCount = IF sms THEN @ + 1 ELSE @,
            !.callCount = IF sms THEN @ ELSE @ + 1,
            !.firstActivity = first,
            !.lastActivity = last,
            !.locations = locs,
            !.records = Append(@, record)]

\* the body of the loop over the records, for a record that is not skipped
FoldInto(phoneData, record) ==
    LET sms == IsSmsDuration(record.duration)
        t == record.dateTime
        first == IF ~IsNull(t) /\ (IsNull(phoneData.firstActivity)
                                     \/ Val(t) < Val(phoneData.firstActivity))
                 THEN t ELSE phoneData.firstActivity
        last == IF ~IsNull(t) /\ (IsNull(phoneData.lastActivity)
                                    \/ Val(t) > Val(phoneData.lastActivity))
                THEN t ELSE phoneData.lastActivity
        locs == IF ~IsNull(record.location)
                   /\ ~LocationExists(phoneData.locations, Val(record.location))
                THEN Append(phoneData.locations, Val(record.location))
                ELSE phoneData.locations
    IN  [phoneData EXCEPT
            !.smsCount = IF sms THEN @ + 1 ELSE @,
            !.callCount = IF sms THEN @ ELSE @ + 1,
            !.firstActivity = first,
            !.lastActivity = last,
            !.locations = locs,
            !.records = Append(@, record)]

\* one iteration of the loop over the records
FoldRecordInto(map, record, subs) ==
    IF TooShort(record.callerNumber) THEN map
    ELSE LET withKey == IF MapIndex(map, record.callerNumber) = 0
                        THEN Append(map, NewPhoneData(record.callerNumber, subs))
                        ELSE map
             k == MapIndex(withKey, record.callerNumber)
         IN  [withKey EXCEPT ![k] = FoldInto(@, record)]

\* a.dateTime?.getTime() || 0
SortKey(record) == IF IsNull(record.dateTime) THEN 0 ELSE Val(record.dateTime)

\* Array.prototype.sort is stable: an element goes after those whose key is not greater
InsertSorted(sorted, record) ==
    LET k == Cardinality({i \in 1..Len(sorted) : SortKey(sorted[i]) <= SortKey(record)})
    IN  SubSeq(sorted, 1, k) \o <<record>> \o SubSeq(sorted, k + 1, Len(sorted))

RECURSIVE SortRecords(_)
SortRecords(recs) ==
    IF recs = <<>> THEN <<>>
    ELSE InsertSorted(SortRecords(SubSeq(recs, 1, Len(recs) - 1)), recs[Len(recs)])

\* the loop over phoneMap.values() that sorts every record list
SortAll(map) == [i \in 1..Len(map) |-> [map[i] EXCEPT !.records = SortRecords(@)]]

\* aggregateByPhoneNumber as a whole: the fold of every record, then the sort
RECURSIVE FoldRecords(_, _, _)
FoldRecords(map, recs, subs) ==
    IF recs = <<>> THEN map
    ELSE FoldRecords(FoldRecordInto(map, Head(recs), subs), Tail(recs), subs)

aggregateByPhoneNumber(recs, subs) == SortAll(FoldRecords(<<>>, recs, subs))

-----------------------------------------------------------------------------
(* serializeParsedData *)

\* r.dateTime?.toISOString()
SerializeDate(d) == IF IsNull(d) THEN Null ELSE Some(ToISOString(Val(d)))

SerializeRecord(r) == [r EXCEPT !.dateTime = SerializeDate(@)]

SerializeRecords(recs) == [i \in 1..Len(recs) |-> SerializeRecord(recs[i])]

\* one element of phoneNumbersArray
SerializePhone(phoneData) ==
    [number |-> phoneData.number,
     identity |-> phoneData.identity,
     callCount |-> phoneData.callCount,
     smsCount |-> phoneData.smsCount,
     locations |-> phoneData.locations,
     records |-> SerializeRecords(phoneData.records),
     firstActivity |-> SerializeDate(phoneData.firstActivity),
     lastActivity |-> SerializeDate(phoneData.lastActivity)]

serializeParsedData(data) ==
    [fileType |-> data.fileType,
     phoneNumbers |-> [i \in 1..Len(data.phoneNumbers) |->
                          SerializePhone(data.phoneNumbers[i])],
     allRecords |-> SerializeRecords(data.allRecords),
     subscribers |-> data.subscribers]

-----------------------------------------------------------------------------
(* handleUploadComplete: the merge of the per-file results *)

\* new Date(record.dateTime).getTime(); Null stands for NaN
MergeSortKey(record) ==
    IF IsNull(record.dateTime) THEN Null ELSE IsoInstant(Val(record.dateTime))

\* the comparator's result a - b; a NaN difference counts as 0 in the sort
CompareByDate(a, b) ==
    IF IsNull(MergeSortKey(a)) \/ IsNull(MergeSortKey(b)) THEN 0
    ELSE Val(MergeSortKey(a)) - Val(MergeSortKey(b))

\* the stable sort: an element goes after those it does not compare below
InsertByDate(sorted, record) ==
    LET k == Cardinality({i \in 1..Len(sorted) : CompareByDate(sorted[i], record) <= 0})
    IN  SubSeq(sorted, 1, k) \o <<record>> \o SubSeq(sorted, k + 1, Len(sorted))

RECURSIVE SortByDate(_)
SortByDate(recs) ==
    IF recs = <<>> THEN <<>>
    ELSE InsertByDate(SortByDate(SubSeq(recs, 1, Len(recs) - 1)), recs[Len(recs)])

MergeRecords_Concat(existing, incoming) == existing \o incoming

\* [...existing.records, ...phone.records].sort(by date)
MergeRecords(existing, incoming) == SortByDate(existing \o incoming)

\* existing.locations.some(l => l.latitude === loc.latitude && l.longitude === loc.longitude)
LocExists(locations, loc) ==
    \E i \in 1..Len(locations) :
        /\ locations[i].latitude = loc.latitude
        /\ locations[i].longitude = loc.longitude

\* the loop over phone.locations
RECURSIVE MergeLocations(_, _)
MergeLocations(existing, incoming) ==
    IF incoming = <<>> THEN existing
    ELSE MergeLocations(IF LocExists(existing, Head(incoming)) THEN existing
                        ELSE Append(existing, Head(incoming)),
                        Tail(incoming))

MergeCounts_KeepFirst(existing, phoneData) == existing

\* existing.callCount += phone.callCount; existing.smsCount += phone.smsCount
MergeCounts(existing, phoneData) ==
    [existing EXCEPT !.callCount = @ + phoneData.callCount,
                     !.smsCount = @ + phoneData.smsCount]

\* the branch `if (existing)`: the object found in allPhoneNumbers is updated
MergeInto(existing, phoneData) ==
    [MergeCounts(existing, phoneData) EXCEPT
        !.records = MergeRecords(@, phoneData.records),
        !.locations = MergeLocations(@, phoneData.locations)]

\* a reference to the object phoneNumbers[index] of the result of a file:
\* allPhoneNumbers holds the objects of the results themselves, not copies
PhoneRef(file, index) == [file |-> file, index |-> index]

PhoneAt(res, ref) == res[ref.file].data.phoneNumbers[ref.index]

\* allPhoneNumbers.find(p => p.number === phone.number): the position of the
\* first match, 0 when there is none
RECURSIVE FindPhone(_, _, _, _)
FindPhone(res, all, number, i) ==
    IF i > Len(all) THEN 0
    ELSE IF PhoneAt(res, all[i]).number = number THEN i
    ELSE FindPhone(res, all, number, i + 1)

\* one iteration of the inner loop, on the objects as they are then
MergePhone(st, file, index) ==
    LET phoneData == PhoneAt(st.res, PhoneRef(file, index))
        i == FindPhone(st.res, st.all, phoneData.number, 1)
    IN  IF i > 0
        THEN [st EXCEPT
                 !.res[st.all[i].file].data.phoneNumbers[st.all[i].index] =
                     MergeInto(@, phoneData)]
        ELSE [st EXCEPT !.all = Append(@, PhoneRef(file, index))]

\* result.success && result.data?.phoneNumbers
Mergeable(result) == result.success

RECURSIVE MergePhones(_, _, _)
MergePhones(st, file, index) ==
    IF index > Len(st.res[file].data.phoneNumbers) THEN st
    ELSE MergePhones(MergePhone(st, file, index), file, index + 1)

\* the loop over the results; the value is the results as the loop leaves them
\* and the references held by allPhoneNumbers
RECURSIVE MergeResults(_, _)
MergeResults(st, file) ==
    IF file > Len(st.res) THEN st
    ELSE MergeResults(IF Mergeable(st.res[file]) THEN MergePhones(st, file, 1) ELSE st,
                      file + 1)

\* allPhoneNumbers at the end of the loop
MergedPhones(st) == [i \in 1..Len(st.all) |-> PhoneAt(st.res, st.all[i])]

-----------------------------------------------------------------------------
(* Headers and sheet names used by the specifications *)

HdrLocalisation == <<"L", "o", "c", "a", "l", "i", "s", "a", "t", "i", "o", "n">>
HdrDateLocalisationImei ==
    <<"D", "a", "t", "e", " ", "l", "o", "c", "a", "l", "i", "s", "a", "t", "i", "o", "n",
      " ", "I", "M", "E", "I">>
HdrImei == <<"I", "M", "E", "I">>
HdrNumeroAppelantImei ==
    <<"N", "u", "m", "e", "r", "o", " ", "a", "p", "p", "e", "l", "a", "n", "t", " ",
      "i", "m", "e", "i">>
HdrNumeroAppelant ==
    <<"N", "u", "m", "é", "r", "o", " ", "A", "p", "p", "e", "l", "a", "n", "t">>
HdrNumeroEmetteur ==
    <<"N", "U", "M", "E", "R", "O", " ", "E", "M", "E", "T", "T", "E", "U", "R">>
HdrNumeroAppele ==
    <<"N", "u", "m", "é", "r", "o", " ", "a", "p", "p", "e", "l", "é">>
HdrNumeroRecepteurDate ==
    <<"n", "u", "m", "e", "r", "o", " ", "r", "e", "c", "e", "p", "t", "e", "u", "r", " ",
      "d", "a", "t", "e">>
HdrLeNumeroAppelant ==
    <<"L", "e", " ", "n", "u", "m", "e", "r", "o", " ", "a", "p", "p", "e", "l", "a", "n", "t">>
HdrDate == <<"D", "a", "t", "e">>
HdrDateDuree == <<"D", "a", "t", "e", " ", "d", "u", "r", "é", "e">>
HdrDuree == <<"D", "U", "R", "É", "E">>
HdrDureeDecomposed == <<"D", "u", "r", "e", "U+0301", "e", " ", "(", "s", ")">>
HdrObservations == <<"O", "b", "s", "e", "r", "v", "a", "t", "i", "o", "n", "s">>

HdrJour == <<"J", "o", "u", "r">>
HdrSite == <<"S", "i", "t", "e">>
HdrNumero == <<"N", "u", "m", "é", "r", "o">>
HdrNomPrenom == <<"N", "o", "m", " ", "e", "t", " ", "P", "r", "é", "n", "o", "m">>
HdrDateNaissance == <<"D", "a", "t", "e", " ", "d", "e", " ", "n", "a", "i", "s", "s", "a", "n", "c",
      "e">>
HdrNumeroCni == <<"N", "u", "m", "é", "r", "o", " ", "C", "N", "I">>
HdrNumeroTelCni == <<"N", "u", "m", "é", "r", "o", " ", "t", "é", "l", " ", "(", "h", "o", "r", "s",
      " ", "C", "N", "I", ")">>
HdrAdresse == <<"A", "d", "r", "e", "s", "s", "e">>

NameListingAppel == <<"L", "i", "s", "t", "i", "n", "g", " ", "A", "p", "p", "e", "l">>
NameListingSms == <<"L", "i", "s", "t", "i", "n", "g", " ", "S", "M", "S">>
NameListing == <<"L", "i", "s", "t", "i", "n", "g">>
NameIdentification == <<"I", "d", "e", "n", "t", "i", "f", "i", "c", "a", "t", "i", "o", "n", " ", "A",
      "b", "o", "n", "n", "é", "s">>
NameListingAppelBis == <<"L", "I", "S", "T", "I", "N", "G", " ", "A", "P", "P", "E", "L", " ", "(", "2",
      ")">>
NameListingSmsBis == <<"D", "é", "t", "a", "i", "l", " ", "l", "i", "s", "t", "i", "n", "g", " ", "s",
      "m", "s">>
NameListingUpper == <<"L", "I", "S", "T", "I", "N", "G">>
NameImeiPartage == <<"I", "M", "E", "I", " ", "P", "a", "r", "t", "a", "g", "é">>
NameFeuil1 == <<"F", "e", "u", "i", "l", "1">>

StrBastos == <<"B", "a", "s", "t", "o", "s">>

-----------------------------------------------------------------------------
(* Specification SpecNorm: normalizePhoneNumber applied to an input, then   *)
(* to its own result                                                        *)

MaxPhoneLen == 5

PhoneAlphabet == {"2", "3", "7", "6", "+", " "}

Str237699123456 == <<"2", "3", "7", "6", "9", "9", "1", "2", "3", "4", "5", "6">>
Str699_123_456 == <<"6", "9", "9", "-", "1", "2", "3", "-", "4", "5", "6">>
StrPlus237699123456 == <<"+">> \o Str237699123456
Str699123456 == <<"6", "9", "9", "1", "2", "3", "4", "5", "6">>

PhoneStrings ==
    UNION {[1..k -> PhoneAlphabet] : k \in 0..MaxPhoneLen}
        \cup {Str237699123456, Str699_123_456, StrPlus237699123456}

PhoneInputs ==
    {AbsentCell} \cup {StrCell(s) : s \in PhoneStrings}
        \cup {NumCell(n) : n \in {0, 6, 237, 237699, 699111222}}

NormIdle ==
    /\ phone = AbsentCell
    /\ once = <<>>
    /\ twice = <<>>
    /\ npc = "idle"

NormInit ==
    /\ phone \in PhoneInputs
    /\ once = <<>>
    /\ twice = <<>>
    /\ npc = "input"

NormalizeOnce ==
    /\ npc = "input"
    /\ once' = normalizePhoneNumber(phone)
    /\ npc' = "once"
    /\ UNCHANGED <<phone, twice, aggVars, postVars, funVars>>

NormalizeTwice ==
    /\ npc = "once"
    /\ twice' = normalizePhoneNumber(StrCell(once))
    /\ npc' = "twice"
    /\ UNCHANGED <<phone, once, aggVars, postVars, funVars>>

NormNext == NormalizeOnce \/ NormalizeTwice

-----------------------------------------------------------------------------
(* Specification SpecAgg: aggregateByPhoneNumber folds a list of records,   *)
(* one loop iteration per step, then sorts every record list and returns    *)

MaxRecords == 3

NumA == <<"6", "9", "9", "1", "1", "1", "2", "2", "2">>
NumB == <<"6", "5", "5", "3", "3", "3", "4", "4", "4">>
NumSix == <<"1", "2", "3", "4", "5", "6">>
NumFive == <<"1", "2", "3", "4", "5">>

StrSms == <<"S", "m", "s">>
StrCallDuration == <<"9", "0">>

Loc(lat, lng) == Some([latitude |-> lat, longitude |-> lng])

Rec(caller, called, t, duration, location) ==
    [id |-> 0, callerNumber |-> caller, calledNumber |-> called,
     dateTime |-> t, duration |-> duration, location |-> location]

\* what one caller's records may look like: timestamps before, at and after the
\* epoch or missing, the SMS marker in several cases, locations inside and on the
\* border of each other's epsilon box
RecordShapes ==
    {<<Null, StrSMS, Null>>,
     <<Null, StrCallDuration, Loc(0, 0)>>,
     <<Some(-3), Strsms, Loc(1, 1)>>,
     <<Some(-3), StrCallDuration, Loc(2, 0)>>,
     <<Some(0), <<>>, Loc(2, 0)>>,
     <<Some(4), StrSms, Loc(0, 0)>>,
     <<Some(4), StrCallDuration, Loc(1, 1)>>,
     <<Some(9), StrCallDuration, Null>>}

RecordPool ==
    {Rec(NumA, NumB, sh[1], sh[2], sh[3]) : sh \in RecordShapes}
        \cup {Rec(NumSix, NumA, Null, StrCallDuration, Loc(0, 0)),
              Rec(NumSix, <<>>, Some(4), StrSMS, Loc(7, 7)),
              Rec(NumFive, NumA, Some(4), StrCallDuration, Loc(0, 0)),
              Rec(<<>>, NumB, Some(9), StrSMS, Loc(1, 1))}

\* each record gets an identifier that is unique within the run
WithIds(recs) == [i \in 1..Len(recs) |-> [recs[i] EXCEPT !.id = i]]

RecordLists == UNION {[1..k -> RecordPool] : k \in 0..MaxRecords}

AggIdle ==
    /\ workbook = <<>>
    /\ sheet = NoSheet
    /\ sheetCols = NoColumns
    /\ now = 0
    /\ records = <<>>
    /\ subscribers = <<>>
    /\ fileResult = Null
    /\ phoneMap = <<>>
    /\ pos = 1
    /\ pc = "idle"

AggInit ==
    /\ workbook = <<>>
    /\ sheet = NoSheet
    /\ sheetCols = NoColumns
    /\ now = 0
    /\ records \in {WithIds(recs) : recs \in RecordLists}
    /\ subscribers = <<>>
    /\ fileResult = Null
    /\ phoneMap = <<>>
    /\ pos = 1
    /\ pc = "fold"

\* for (const record of records) { ... }
FoldRecord ==
    /\ pc = "fold"
    /\ pos <= Len(records)
    /\ phoneMap' = FoldRecordInto(phoneMap, records[pos], subscribers)
    /\ pos' = pos + 1
    /\ UNCHANGED <<workbook, sheet, sheetCols, now, records, subscribers, fileResult, pc, normVars,
                   postVars, funVars>>

\* for (const phoneData of phoneMap.values()) { sort }; return phoneMap
SortAndReturn ==
    /\ pc = "fold"
    /\ pos > Len(records)
    /\ phoneMap' = SortAll(phoneMap)
    /\ pc' = "done"
    /\ UNCHANGED <<workbook, sheet, sheetCols, now, records, subscribers, fileResult, pos, normVars,
                   postVars, funVars>>

AggNext == FoldRecord \/ SortAndReturn

-----------------------------------------------------------------------------
(* The upload path: processFiles in the browser, POST /api/upload on the    *)
(* server                                                                   *)

ExtXlsx == <<".", "x", "l", "s", "x">>
ExtXls == <<".", "x", "l", "s">>

\* FileUpload.processFiles: file.name.endsWith('.xlsx') || file.name.endsWith('.xls')
ClientAccepts(name) == EndsWith(name, ExtXlsx) \/ EndsWith(name, ExtXls)

\* Array.from(fileList).filter(...)
validFiles(fileList) == SelectSeq(fileList, LAMBDA f : ClientAccepts(f.name))

\* faulty variant: the extension is looked for anywhere in the name
ServerAccepts_Anywhere(name) ==
    \E i \in 1..Len(name) : StartsWith(Substring(ToLowerCase(name), i - 1), ExtXls)

\* POST: fileName = file.name.toLowerCase();
\*       !(!fileName.endsWith('.xlsx') && !fileName.endsWith('.xls'))
ServerAccepts(name) ==
    LET fileName == ToLowerCase(name)
    IN  ~(~EndsWith(fileName, ExtXlsx) /\ ~EndsWith(fileName, ExtXls))

RejectedEntry(file) ==
    [fileName |-> file.name, success |-> FALSE, body |-> "error: unsupported format"]

SuccessEntry(file) ==
    [fileName |-> file.name, success |-> TRUE, body |-> "data"]

ParseErrorEntry(file) ==
    [fileName |-> file.name, success |-> FALSE, body |-> "error: parsing"]

\* faulty variant: the entry of a failed file is not pushed
AfterParseError_Dropped(res, file) == res

\* catch (parseError) { results.push({fileName, success: false, error}) }
AfterParseError(res, file) == Append(res, ParseErrorEntry(file))

NoResponse == [status |-> 0, success |-> FALSE, results |-> <<>>]


MaxFiles == 3

NameA == <<"a">> \o ExtXlsx
NameB == <<"b">> \o ExtXls
NameUpper == <<"C", ".", "X", "L", "S", "X">>
NameCsv == <<"d", ".", "c", "s", "v">>
NameXlsTxt == <<"e">> \o ExtXls \o <<".", "t", "x", "t">>

\* content: "ok", "unreadable" (file.arrayBuffer() rejects) or "corrupt"
\* (parseExcelFile or serializeParsedData throws)
File(name, content) == [name |-> name, content |-> content]

FilePool ==
    {File(NameA, "ok"), File(NameA, "corrupt"), File(NameB, "ok"),
     File(NameB, "unreadable"), File(NameUpper, "ok"), File(NameUpper, "corrupt"),
     File(NameCsv, "ok"), File(NameXlsTxt, "ok")}

Selections == UNION {[1..k -> FilePool] : k \in 0..MaxFiles}

NoRequest == [parsable |-> FALSE, files |-> <<>>]

PostIdle ==
    /\ selection = <<>>
    /\ request = NoRequest
    /\ files = <<>>
    /\ fileIdx = 1
    /\ results = <<>>
    /\ reads = <<>>
    /\ parses = <<>>
    /\ response = NoResponse
    /\ hpc = "idle"

PostInit ==
    /\ selection \in Selections
    /\ request = NoRequest
    /\ files = <<>>
    /\ fileIdx = 1
    /\ results = <<>>
    /\ reads = <<>>
    /\ parses = <<>>
    /\ response = NoResponse
    /\ hpc = "client"

\* FileUpload.processFiles up to the fetch: only the files the filter keeps are sent
ProcessFiles ==
    /\ hpc = "client"
    /\ LET valid == validFiles(selection)
       IN  IF valid = <<>>
           THEN /\ hpc' = "alerted"
                /\ UNCHANGED request
           ELSE /\ request' = [parsable |-> TRUE, files |-> valid]
                /\ hpc' = "start"
    /\ UNCHANGED <<selection, files, fileIdx, results, reads, parses, response,
                   normVars, aggVars, funVars>>

\* a request that does not come from processFiles: any body, any files
DirectRequest ==
    /\ hpc = "client"
    /\ \E ok \in BOOLEAN : request' = [parsable |-> ok, files |-> selection]
    /\ hpc' = "start"
    /\ UNCHANGED <<selection, files, fileIdx, results, reads, parses, response,
                   normVars, aggVars, funVars>>

\* request.formData() throws: the outer catch answers 500
FormDataFails ==
    /\ hpc = "start"
    /\ ~request.parsable
    /\ response' = [status |-> 500, success |-> FALSE, results |-> <<>>]
    /\ hpc' = "responded"
    /\ UNCHANGED <<selection, request, files, fileIdx, results, reads, parses,
                   normVars, aggVars, funVars>>

\* if (!files || files.length === 0) return 400
NoFiles ==
    /\ hpc = "start"
    /\ request.parsable
    /\ request.files = <<>>
    /\ response' = [status |-> 400, success |-> FALSE, results |-> <<>>]
    /\ hpc' = "responded"
    /\ UNCHANGED <<selection, request, files, fileIdx, results, reads, parses,
                   normVars, aggVars, funVars>>

\* files = formData.getAll('files'); results = []
ReadForm ==
    /\ hpc = "start"
    /\ request.parsable
    /\ request.files # <<>>
    /\ files' = request.files
    /\ fileIdx' = 1
    /\ results' = <<>>
    /\ reads' = [i \in 1..Len(request.files) |-> 0]
    /\ parses' = [i \in 1..Len(request.files) |-> 0]
    /\ hpc' = "loop"
    /\ UNCHANGED <<selection, request, response, normVars, aggVars, funVars>>

\* the extension check fails: push a failure entry, continue
RejectFile ==
    /\ hpc = "loop"
    /\ fileIdx <= Len(files)
    /\ ~ServerAccepts(files[fileIdx].name)
    /\ results' = Append(results, RejectedEntry(files[fileIdx]))
    /\ fileIdx' = fileIdx + 1
    /\ UNCHANGED <<selection, request, files, reads, parses, response, hpc,
                   normVars, aggVars, funVars>>

\* arrayBuffer, parseExcelFile and serializeParsedData succeed
ParseFile ==
    /\ hpc = "loop"
    /\ fileIdx <= Len(files)
    /\ ServerAccepts(files[fileIdx].name)
    /\ files[fileIdx].content = "ok"
    /\ reads' = [reads EXCEPT ![fileIdx] = @ + 1]
    /\ parses' = [parses EXCEPT ![fileIdx] = @ + 1]
    /\ results' = Append(results, SuccessEntry(files[fileIdx]))
    /\ fileIdx' = fileIdx + 1
    /\ UNCHANGED <<selection, request, files, response, hpc, normVars, aggVars, funVars>>

\* await file.arrayBuffer() rejects: the inner catch pushes a failure entry
ReadFails ==
    /\ hpc = "loop"
    /\ fileIdx <= Len(files)
    /\ ServerAccepts(files[fileIdx].name)
    /\ files[fileIdx].content = "unreadable"
    /\ reads' = [reads EXCEPT ![fileIdx] = @ + 1]
    /\ results' = AfterParseError(results, files[fileIdx])
    /\ fileIdx' = fileIdx + 1
    /\ UNCHANGED <<selection, request, files, parses, response, hpc, normVars, aggVars, funVars>>

\* parseExcelFile throws: the inner catch pushes a failure entry
ParseFails ==
    /\ hpc = "loop"
    /\ fileIdx <= Len(files)
    /\ ServerAccepts(files[fileIdx].name)
    /\ files[fileIdx].content = "corrupt"
    /\ reads' = [reads EXCEPT ![fileIdx] = @ + 1]
    /\ parses' = [parses EXCEPT ![fileIdx] = @ + 1]
    /\ results' = AfterParseError(results, files[fileIdx])
    /\ fileIdx' = fileIdx + 1
    /\ UNCHANGED <<selection, request, files, response, hpc, normVars, aggVars, funVars>>

\* return NextResponse.json({ success: true, results })
Respond ==
    /\ hpc = "loop"
    /\ fileIdx > Len(files)
    /\ response' = [status |-> 200, success |-> TRUE, results |-> results]
    /\ hpc' = "responded"
    /\ UNCHANGED <<selection, request, files, fileIdx, results, reads, parses,
                   normVars, aggVars, funVars>>

PostNext ==
    \/ ProcessFiles \/ DirectRequest \/ FormDataFails \/ NoFiles \/ ReadForm
    \/ RejectFile \/ ParseFile \/ ReadFails \/ ParseFails \/ Respond

-----------------------------------------------------------------------------
(* Specification SpecParse: parseExcelFile on a workbook. The calls sheet     *)
(* and the SMS sheet are extracted by parseListingSheet, one row per step;  *)
(* the SMS records are stamped; the subscribers are read; the records are   *)
(* folded by aggregateByPhoneNumber; the upload handler serializes and      *)
(* reports the result                                                       *)

MaxRows == 2

StrSlashDate ==
    <<"1", "5", "/", "0", "3", "/", "2", "0", "2", "4", " ",
      "0", "9", ":", "0", "0", ":", "0", "0">>
StrDashDate ==
    <<"1", "6", "-", "0", "3", "-", "2", "0", "2", "4", " ",
      "1", "0", ":", "3", "0", ":", "0", "0">>
StrIsoDate ==
    <<"2", "0", "2", "4", "-", "0", "3", "-", "1", "4", "T",
      "0", "8", ":", "0", "0", ":", "0", "0">>
StrOldDate ==
    <<"0", "1", "/", "0", "1", "/", "1", "9", "6", "0", " ",
      "0", "0", ":", "0", "0", ":", "0", "0">>
StrNotADate == <<"n", "/", "a">>
StrDashes == <<"-", "-">>

DateCells ==
    {StrCell(StrSlashDate), StrCell(StrIsoDate), StrCell(StrNotADate), NumCell(45366),
     DateCell(1710500000)}

\* the instant at which the parse starts (2026-11-04 12:00:00)
ClockStart == NewDate(2026, 10, 4, 12, 0, 0)

StrBastosLocation ==
    <<"B", "a", "s", "t", "o", "s", " ", "(", "C", "e", "l", "l", ":", " ", "A", "1",
      " ", "L", "o", "n", "g", ":", " ", "1", "1", ".", "5", " ", "L", "a", "t", ":",
      " ", "3", ".", "8", "5", " ", "A", "z", "i", "m", "u", "t", ":", " ", "4", "5",
      ")">>
StrNearBastosLocation == <<"L", "o", "n", "g", ":", " ", "1", "1", ".", "5", "0", "0", "0", "5", " ", "L",
      "a", "t", ":", " ", "3", ".", "8", "5">>
StrFarLocation == <<"E", "t", "o", "u", "d", "i", " ", "(", "L", "o", "n", "g", ":", " ", "2", "0",
      "0", " ", "L", "a", "t", ":", " ", "3", ".", "9", ")">>
StrJean == <<" ", "J", "e", "a", "n", " ", "A", "b", "e", "n", "a", " ">>
StrPaul == <<"P", "a", "u", "l", " ", "E", "s", "s", "o", "m", "b", "a">>
StrBirth == <<"1", "9", "9", "0", "-", "0", "5", "-", "1", "7">>

\* the cells of a listing row, in the order of the five columns of a layout
Row(caller, called, date, duration, place) == <<caller, called, date, duration, place>>

\* the row as sheet_to_json gives it: an object keyed by the headers
RowObject(headers, cells) ==
    [h \in {headers[i] : i \in 1..Len(headers)} |->
        cells[CHOOSE i \in 1..Len(headers) : headers[i] = h]]

Sheet(name, headers, rowList) ==
    [name |-> name,
     data |-> SheetData(headers, [i \in 1..Len(rowList) |-> RowObject(headers, rowList[i])])]

\* every role but the IMEI has its column
LayoutFull ==
    <<HdrNumeroAppelant, HdrNumeroAppele, HdrDate, HdrDuree, HdrLocalisation>>
\* only the caller and the duration have a column
LayoutSparse ==
    <<HdrNumeroEmetteur, HdrObservations, HdrJour, HdrDureeDecomposed, HdrSite>>
\* two caller columns and two date columns, no called and no duration column
LayoutTwice ==
    <<HdrNumeroAppelant, HdrNumeroEmetteur, HdrDate, HdrDateDuree, HdrLocalisation>>

RowPool ==
    {Row(StrCell(CountryPrefix \o NumA), StrCell(NumB), d, StrCell(StrCallDuration),
         StrCell(<<>>)) : d \in DateCells}
      \cup {Row(NumCell(699111222), StrCell(<<>>), StrCell(StrNotADate), StrCell(StrSMS),
                 StrCell(StrDashes)),
            Row(StrCell(NumSix), StrCell(NumB), StrCell(StrOldDate), StrCell(<<>>),
                StrCell(StrBastosLocation))}

\* the rows tried under every layout: locations inside and outside the ranges, a row without a caller, a row without any number
FewRows ==
    {Row(StrCell(NumA), StrCell(NumB), StrCell(StrSlashDate), StrCell(StrDashDate),
         StrCell(StrBastosLocation)),
     Row(StrCell(NumA), StrCell(<<>>), StrCell(StrNotADate), StrCell(<<>>),
         StrCell(StrFarLocation)),
     Row(StrCell(<<>>), StrCell(NumA), StrCell(StrIsoDate), StrCell(<<>>), StrCell(<<>>)),
     Row(StrCell(<<>>), StrCell(<<"+">>), StrCell(StrIsoDate), StrCell(StrCallDuration),
         StrCell(StrDashes))}

RowLists(pool) == UNION {[1..k -> pool] : k \in 0..MaxRows}

\* workbooks with one calls sheet
CallsWorkbooks ==
    {<<Sheet(NameListingAppel, LayoutFull, r)>> : r \in RowLists(RowPool)}
        \cup {<<Sheet(NameListingAppel, l, r)>> :
                 l \in {LayoutFull, LayoutSparse, LayoutTwice}, r \in RowLists(FewRows)}

\* what the calls sheet, the SMS sheet and the identification sheet of the other
\* workbooks may hold; <<>> stands for a workbook without the sheet
CallsSheets ==
    {<<>>,
     <<Sheet(NameListingAppel, LayoutFull,
             <<Row(StrCell(NumA), StrCell(NumB), StrCell(StrIsoDate), StrCell(<<>>),
                   StrCell(StrBastosLocation))>>)>>,
     <<Sheet(NameListing, LayoutFull,
             <<Row(StrCell(NumSix), StrCell(NumB), StrCell(StrSlashDate),
                   StrCell(StrCallDuration), StrCell(<<>>)),
               Row(StrCell(<<>>), StrCell(<<>>), StrCell(StrSlashDate), StrCell(<<>>),
                   StrCell(<<>>))>>)>>}

SmsSheets ==
    {<<>>,
     <<Sheet(NameListingSms, LayoutFull,
             <<Row(StrCell(NumA), StrCell(NumB), StrCell(StrDashDate), StrCell(<<>>),
                   StrCell(StrNearBastosLocation)),
               Row(StrCell(NumB), StrCell(NumA), StrCell(StrDashDate), StrCell(<<" ">>),
                   StrCell(<<>>))>>)>>,
     <<Sheet(NameListingSms, LayoutFull,
             <<Row(StrCell(NumA), StrCell(NumB), StrCell(StrDashDate), StrCell(Strsms),
                   StrCell(<<>>)),
               Row(StrCell(NumA), StrCell(NumB), StrCell(StrSlashDate), StrCell(<<"0">>),
                   StrCell(<<>>))>>)>>,
     <<Sheet(NameListingSms, LayoutSparse, <<>>)>>}

LayoutSubscribers ==
    <<HdrNumero, HdrNomPrenom, HdrDateNaissance, HdrNumeroCni, HdrAdresse>>

SubscriberSheets ==
    {<<>>,
     <<Sheet(NameIdentification, LayoutSubscribers,
             <<<<StrCell(NumA), StrCell(StrPaul), StrCell(<<>>), StrCell(<<>>),
                 StrCell(<<>>)>>,
               <<StrCell(<<>>), StrCell(StrPaul), StrCell(<<>>), StrCell(<<>>),
                 StrCell(<<>>)>>,
               <<StrCell(NumSix \o <<"7">>), StrCell(StrPaul), StrCell(<<>>),
                 StrCell(<<>>), StrCell(<<>>)>>,
               <<StrCell(NumB), StrCell(<<" ">>), StrCell(<<>>), StrCell(<<>>),
                 StrCell(<<>>)>>,
               <<StrCell(CountryPrefix \o NumA), StrCell(StrJean), StrCell(StrBirth),
                 NumCell(1234), StrCell(StrBastos)>>>>)>>,
     <<Sheet(NameIdentification, LayoutSubscribers, <<>>)>>}

Reverse(s) == [i \in 1..Len(s) |-> s[Len(s) + 1 - i]]

\* workbooks with any of the three sheets missing, in both orders, next to a
\* sheet that has no role
SheetWorkbooks ==
    LET ordered == {c \o s \o i \o <<Sheet(NameFeuil1, LayoutSparse, <<>>)>> :
                        c \in CallsSheets, s \in SmsSheets, i \in SubscriberSheets}
    IN  ordered \cup {Reverse(w) : w \in ordered}

Workbooks == CallsWorkbooks \cup SheetWorkbooks

SheetNames(wb) == [i \in 1..Len(wb) |-> wb[i].name]

\* workbook.Sheets[name]
SheetNamed(wb, name) == wb[CHOOSE i \in 1..Len(wb) : wb[i].name = name].data

ParseInit ==
    /\ workbook \in Workbooks
    /\ sheet = NoSheet
    /\ sheetCols = NoColumns
    /\ now = ClockStart
    /\ records = <<>>
    /\ subscribers = <<>>
    /\ fileResult = Null
    /\ phoneMap = <<>>
    /\ pos = 1
    /\ pc = "calls"

\* if (listingSheets.calls) parseListingSheet(callsSheet), up to identifyColumns
BeginCalls ==
    /\ pc = "calls"
    /\ LET calls == findListingSheets(SheetNames(workbook)).calls
       IN  IF Truthy(calls)
           THEN /\ sheet' = SheetNamed(workbook, Val(calls))
                /\ sheetCols' = ListingColumns(SheetNamed(workbook, Val(calls)))
                /\ pc' = "parse"
           ELSE /\ pc' = "sms"
                /\ UNCHANGED <<sheet, sheetCols>>
    /\ pos' = 1
    /\ UNCHANGED <<workbook, now, records, subscribers, fileResult, phoneMap, normVars,
                   postVars, funVars>>

\* one iteration of the loop over the rows; the clock may have advanced
ParseRow ==
    /\ pc \in {"parse", "parseSms"}
    /\ pos <= Len(sheet.rows)
    /\ \E tick \in 0..1 :
        /\ now' = now + tick
        /\ LET id == [pass |-> IF pc = "parse" THEN "calls" ELSE "sms", row |-> pos]
               record == RowRecord(sheetCols, sheet.rows[pos], id, now + tick)
           IN  records' = IF RowEmitted(record) THEN Append(records, record) ELSE records
    /\ pos' = pos + 1
    /\ UNCHANGED <<workbook, sheet, sheetCols, subscribers, fileResult, phoneMap, pc, normVars,
                   postVars, funVars>>

\* parseListingSheet returns the call records: allRecords.push(...callRecords)
EndCalls ==
    /\ pc = "parse"
    /\ pos > Len(sheet.rows)
    /\ pc' = "sms"
    /\ UNCHANGED <<workbook, sheet, sheetCols, now, records, subscribers, fileResult, phoneMap,
                   pos, normVars, postVars, funVars>>

\* if (listingSheets.sms) parseListingSheet(smsSheet), up to identifyColumns
BeginSms ==
    /\ pc = "sms"
    /\ LET sms == findListingSheets(SheetNames(workbook)).sms
       IN  IF Truthy(sms)
           THEN /\ sheet' = SheetNamed(workbook, Val(sms))
                /\ sheetCols' = ListingColumns(SheetNamed(workbook, Val(sms)))
                /\ pc' = "parseSms"
           ELSE /\ pc' = "subscribers"
                /\ UNCHANGED <<sheet, sheetCols>>
    /\ pos' = 1
    /\ UNCHANGED <<workbook, now, records, subscribers, fileResult, phoneMap, normVars,
                   postVars, funVars>>

\* parseListingSheet returns the SMS records: they are stamped, then pushed
EndSms ==
    /\ pc = "parseSms"
    /\ pos > Len(sheet.rows)
    /\ records' = StampSms(records)
    /\ pc' = "subscribers"
    /\ UNCHANGED <<workbook, sheet, sheetCols, now, subscribers, fileResult, phoneMap, pos,
                   normVars, postVars, funVars>>

\* findSubscribersSheet, parseSubscribersSheet; aggregateByPhoneNumber is entered
ParseSubscribers ==
    /\ pc = "subscribers"
    /\ LET name == findSubscribersSheet(SheetNames(workbook))
       IN  subscribers' = IF Truthy(name)
                          THEN parseSubscribersSheet(SheetNamed(workbook, Val(name)))
                          ELSE <<>>
    /\ pos' = 1
    /\ pc' = "fold"
    /\ UNCHANGED <<workbook, sheet, sheetCols, now, records, fileResult, phoneMap, normVars,
                   postVars, funVars>>

\* the upload handler after parseExcelFile has returned: serializeParsedData,
\* results.push({fileName, success: true, data})
ReportSuccess ==
    /\ pc = "done"
    /\ fileResult' =
          Some([success |-> TRUE,
                data |-> serializeParsedData(
                             [fileType |-> detectFileType(SheetNames(workbook)),
                              phoneNumbers |-> phoneMap,
                              allRecords |-> records,
                              subscribers |-> subscribers])])
    /\ pc' = "reported"
    /\ UNCHANGED <<workbook, sheet, sheetCols, now, records, subscribers, phoneMap, pos,
                   normVars, postVars, funVars>>

ParseNext ==
    \/ BeginCalls \/ ParseRow \/ EndCalls \/ BeginSms \/ EndSms \/ ParseSubscribers
    \/ FoldRecord \/ SortAndReturn \/ ReportSuccess

-----------------------------------------------------------------------------
(* Specification SpecLoc: parseLocationString applied to a location text    *)

MaxTokenLen == 3

TokenAlphabet == {"9", "0", ".", "-"}

\* every short text over the characters of the class [\d.-]
ShortTokens == UNION {[1..k -> TokenAlphabet] : k \in 0..MaxTokenLen}

\* coordinates and malformed numbers taken one by one: inside, on and just
\* outside the borders of both ranges, and tokens that only start with a number
PickedTokens ==
    {<<"1", "1", ".", "5">>, <<"3", ".", "8", "5">>,
     <<"1", "8", "0">>, <<"-", "1", "8", "0">>,
     <<"1", "8", "0", ".", "0", "0", "0", "0", "5">>,
     <<"-", "9", "0">>, <<"9", "0", ".", "0", "0", "0", "0", "5">>,
     <<"1", ".", "2", ".", "3">>, <<"a", "b", "c">>}

TokenPairs ==
    (ShortTokens \X PickedTokens) \cup (PickedTokens \X ShortTokens)
        \cup (PickedTokens \X PickedTokens)

\* the text around the two tokens
Frames ==
    {[pre |-> StrBastos \o <<" ", "(", "C", "e", "l", "l", ":", " ", "A", "1", " ">>,
      long |-> <<"L", "o", "n", "g", ":", " ">>, gap |-> <<" ">>,
      lat |-> <<"L", "a", "t", ":", " ">>,
      post |-> <<" ", "A", "z", "i", "m", "u", "t", ":", " ", "4", "5", ")">>],
     [pre |-> <<>>, long |-> <<"l", "o", "n", "g", ":">>, gap |-> <<>>,
      lat |-> <<"L", "A", "T", ":">>, post |-> <<>>],
     [pre |-> <<"L", "o", "n", "g", ":", " ", "?", " ">>,
      long |-> <<"L", "o", "n", "g", ":", "\t">>, gap |-> <<" ", " ">>,
      lat |-> <<"l", "a", "t", ":">>, post |-> <<" ", "A", "z", "i", "m", "u", "t", ":", ")">>],
     [pre |-> StrBastos \o <<" ">>, long |-> <<"L", "o", "n", "g", ":", " ">>,
      gap |-> <<",">>, lat |-> <<"L", "a", "t", ":", " ">>, post |-> <<>>]}

\* a framed text, with the two tokens as they are written in it
Framed(f, pair) ==
    [text |-> f.pre \o f.long \o pair[1] \o f.gap \o f.lat \o pair[2] \o f.post,
     long |-> Some(pair[1]), lat |-> Some(pair[2])]

\* a text without tokens
Plain(s) == [text |-> s, long |-> Null, lat |-> Null]

LocationTexts ==
    {Framed(f, pair) : f \in Frames, pair \in TokenPairs}
        \cup {Plain(<<>>), Plain(<<"-", "-">>), Plain(<<" ">>), Plain(<<" ", "\t", " ">>),
              Plain(StrSiteInconnu), Plain(StrBastos), Plain(<<"-">>)}

LocIdle ==
    /\ locText = Plain(<<>>)
    /\ locResult = Null
    /\ lpc = "idle"

LocInit ==
    /\ locText \in LocationTexts
    /\ locResult = Null
    /\ lpc = "input"

ParseLocation ==
    /\ lpc = "input"
    /\ locResult' = parseLocationString(locText.text)
    /\ lpc' = "done"
    /\ UNCHANGED <<locText, normVars, aggVars, postVars, colVars, mergeVars, extraVars>>

LocNext == ParseLocation

-----------------------------------------------------------------------------
(* Specification SpecCols: identifyColumns applied to the headers of a sheet *)

MaxColumns == 3

HeaderPool ==
    {HdrLocalisation, HdrDateLocalisationImei, HdrImei, HdrNumeroAppelantImei,
     HdrNumeroAppelant, HdrNumeroEmetteur, HdrNumeroAppele, HdrNumeroRecepteurDate,
     HdrLeNumeroAppelant, HdrDate, HdrDateDuree, HdrDuree, HdrDureeDecomposed,
     HdrObservations, <<>>}

\* Object.keys of a row: the keys are distinct
IsInjective(s) == \A i, j \in 1..Len(s) : s[i] = s[j] => i = j

HeaderLists ==
    {h \in UNION {[1..k -> HeaderPool] : k \in 0..MaxColumns} : IsInjective(h)}

ColsIdle ==
    /\ headerList = <<>>
    /\ colRoles = NoColumns
    /\ cpc = "idle"

ColsInit ==
    /\ headerList \in HeaderLists
    /\ colRoles = NoColumns
    /\ cpc = "input"

IdentifyColumns ==
    /\ cpc = "input"
    /\ colRoles' = identifyColumns(headerList)
    /\ cpc' = "done"
    /\ UNCHANGED <<headerList, normVars, aggVars, postVars, locVars, mergeVars, extraVars>>

ColsNext == IdentifyColumns

-----------------------------------------------------------------------------
(* Specification SpecMerge: the page receives the results of one upload     *)
(* and handleUploadComplete merges them                                     *)

\* 2024-03-14 08:00:00 and the instants around it
MergeClock == NewDate(2024, 2, 14, 8, 0, 0)

Bastos == Some([siteName |-> StrBastos, latitude |-> 77000, longitude |-> 230000])
NearBastos == Some([siteName |-> StrBastos, latitude |-> 77000, longitude |-> 230001])
Etoudi == Some([siteName |-> StrSiteInconnu, latitude |-> 78000, longitude |-> 230400])

\* a record as parseListingSheet gives it: the date is never null
ListingRecord(id, caller, t, duration, location) ==
    [id |-> id, callerNumber |-> caller, calledNumber |-> NumB, imei |-> <<>>,
     dateTime |-> Some(t), duration |-> duration, location |-> location,
     rawLocation |-> <<>>]

\* the entry of a file that parseExcelFile has parsed, as the handler reports it
SuccessResult(recs) ==
    [success |-> TRUE,
     data |-> serializeParsedData(
                  [fileType |-> "NUMERO",
                   phoneNumbers |-> aggregateByPhoneNumber(recs, <<>>),
                   allRecords |-> recs,
                   subscribers |-> <<>>])]

\* the entry of a file that was rejected or could not be parsed
FailureResult == [success |-> FALSE, error |-> "Erreur inconnue"]

\* the records of the files of an upload: the same number in several files, at
\* the same place, at places within epsilon of one another and far away, with
\* equal, earlier and later dates, and a file without any record
FileRecords ==
    {<<>>,
     <<ListingRecord(0, NumA, MergeClock, StrCallDuration, Bastos)>>,
     <<ListingRecord(0, NumA, MergeClock - 60, StrCallDuration, NearBastos)>>,
     <<ListingRecord(0, NumA, MergeClock + 86400, StrSMS, Bastos),
       ListingRecord(1, NumSix, MergeClock, <<>>, Null)>>,
     <<ListingRecord(0, NumSix, MergeClock + 1, StrCallDuration, Etoudi),
       ListingRecord(1, NumA, MergeClock - 86400 * 20000, Strsms, Etoudi),
       ListingRecord(2, NumA, MergeClock + 30, StrCallDuration, Null)>>}

ResultPool == {SuccessResult(recs) : recs \in FileRecords} \cup {FailureResult}

Batches == UNION {[1..k -> ResultPool] : k \in 0..MaxFiles}

MergeIdle ==
    /\ uploadResults = <<>>
    /\ resultsNow = <<>>
    /\ allPhoneNumbers = <<>>
    /\ uploadedData = <<>>
    /\ showUpload = TRUE
    /\ mpc = "idle"

MergeInit ==
    /\ uploadResults \in Batches
    /\ resultsNow = uploadResults
    /\ allPhoneNumbers = <<>>
    /\ uploadedData = <<>>
    /\ showUpload = TRUE
    /\ mpc = "received"

\* onUploadComplete(result.results): the whole of handleUploadComplete
HandleUploadComplete ==
    /\ mpc = "received"
    /\ LET st == MergeResults([res |-> resultsNow, all |-> <<>>], 1)
       IN  /\ resultsNow' = st.res
           /\ allPhoneNumbers' = MergedPhones(st)
           /\ IF Len(st.all) > 0
              THEN /\ uploadedData' = MergedPhones(st)
                   /\ showUpload' = FALSE
              ELSE UNCHANGED <<uploadedData, showUpload>>
    /\ mpc' = "merged"
    /\ UNCHANGED <<uploadResults, normVars, aggVars, postVars, locVars, colVars, extraVars>>

MergeNext == HandleUploadComplete

-----------------------------------------------------------------------------
(* Specification SpecSheets: parseExcelFile looks at the sheet names of a    *)
(* workbook: detectFileType, then findListingSheets                         *)

MaxSheets == 3

SheetNamePool ==
    {NameListingAppel, NameListingAppelBis, NameListingSms, NameListingSmsBis,
     NameListing, NameListingUpper, NameImeiPartage, NameFeuil1}

\* workbook.SheetNames: the sheets of a workbook have distinct names
SheetNameLists ==
    {s \in UNION {[1..k -> SheetNamePool] : k \in 0..MaxSheets} : IsInjective(s)}

SheetsIdle ==
    /\ sheetNameList = <<>>
    /\ fileType = Null
    /\ listingSheets = Null
    /\ spc = "idle"

SheetsInit ==
    /\ sheetNameList \in SheetNameLists
    /\ fileType = Null
    /\ listingSheets = Null
    /\ spc = "read"

\* const fileType = detectFileType(workbook.SheetNames)
DetectFileType ==
    /\ spc = "read"
    /\ fileType' = Some(detectFileType(sheetNameList))
    /\ spc' = "typed"
    /\ UNCHANGED <<sheetNameList, listingSheets, notSheetVars>>

\* const listingSheets = findListingSheets(workbook)
FindListingSheets ==
    /\ spc = "typed"
    /\ listingSheets' = Some(findListingSheets(sheetNameList))
    /\ spc' = "found"
    /\ UNCHANGED <<sheetNameList, fileType, notSheetVars>>

SheetsNext == DetectFileType \/ FindListingSheets

-----------------------------------------------------------------------------
(* Specification SpecSubs: parseSubscribersSheet on an identification sheet, *)
(* one row per step                                                         *)

MaxSubsColumns == 3

SubsHeaderPool ==
    {HdrNumero, HdrNumeroAppelant, HdrLeNumeroAppelant, HdrNumeroCni, HdrNumeroTelCni,
     HdrNomPrenom}

SubsHeaderLists ==
    {h \in UNION {[1..k -> SubsHeaderPool] : k \in 1..MaxSubsColumns} : IsInjective(h)}

\* what a cell of the sheet may hold: nothing, a number, a number with the
\* country prefix
SubsCells == {StrCell(<<>>), StrCell(NumA), StrCell(CountryPrefix \o NumB)}

\* a sheet of one row with a fixed row after it
SubsSheet(h, cells) ==
    SheetData(h, <<RowObject(h, cells), RowObject(h, [i \in 1..Len(h) |-> StrCell(NumSix)])>>)

SubsIdle ==
    /\ subsSheet = NoSheet
    /\ subsOut = <<>>
    /\ bpos = 1
    /\ bpc = "idle"

SubsInit ==
    /\ \E h \in SubsHeaderLists :
          \E cells \in [1..Len(h) -> SubsCells] : subsSheet = SubsSheet(h, cells)
    /\ subsOut = <<>>
    /\ bpos = 1
    /\ bpc = "rows"

\* one iteration of the loop over the rows
ScanSubscriberRow ==
    /\ bpc = "rows"
    /\ bpos <= Len(subsSheet.rows)
    /\ subsOut' = subsOut \o SubscriberRows(subsSheet.headers, <<subsSheet.rows[bpos]>>)
    /\ bpos' = bpos + 1
    /\ UNCHANGED <<subsSheet, bpc, notSubsVars>>

\* return subscribers
ReturnSubscribers ==
    /\ bpc = "rows"
    /\ bpos > Len(subsSheet.rows)
    /\ bpc' = "done"
    /\ UNCHANGED <<subsSheet, subsOut, bpos, notSubsVars>>

SubsNext == ScanSubscriberRow \/ ReturnSubscribers

-----------------------------------------------------------------------------
(* Specification SpecLoading: the FileUpload component. processFiles runs   *)
(* up to its fetch in one step; the rest of it runs when the request        *)
(* completes, in any order among the requests in flight                     *)

MaxUploads == 2

PickedFile(name) == [name |-> name]

\* what the user may select or drop at once
FileLists ==
    {<<PickedFile(NameA)>>,
     <<PickedFile(NameB)>>,
     <<PickedFile(NameCsv)>>,
     <<PickedFile(NameA), PickedFile(NameB)>>,
     <<PickedFile(NameCsv), PickedFile(NameA)>>}

LoadIdle ==
    /\ isLoading = FALSE
    /\ uploadedFiles = <<>>
    /\ fetches = <<>>
    /\ panelShown = FALSE

\* useState(false) for isLoading, useState([]) for files, useState(true) for showUpload
LoadInit ==
    /\ isLoading = FALSE
    /\ uploadedFiles = <<>>
    /\ fetches = <<>>
    /\ panelShown = TRUE

InFlight == {i \in 1..Len(fetches) : fetches[i].state = "pending"}

\* processFiles up to `await fetch`: nothing happens without a valid file;
\* otherwise the files are listed as 'uploading', the flag is set and the
\* request leaves
processFiles(fileList) ==
    LET valid == validFiles(fileList)
    IN  IF valid = <<>>
        THEN UNCHANGED <<isLoading, uploadedFiles, fetches>>
        ELSE /\ Len(fetches) < MaxUploads
             /\ uploadedFiles' = uploadedFiles \o
                    [i \in 1..Len(valid) |-> [name |-> valid[i].name, status |-> "uploading"]]
             /\ isLoading' = TRUE
             /\ fetches' = Append(fetches,
                    [files |-> [i \in 1..Len(valid) |-> valid[i].name], state |-> "pending",
                     mounted |-> TRUE])

\* handleFileInput: the <input> is disabled while isLoading
HandleFileInput ==
    /\ panelShown
    /\ ~isLoading
    /\ \E fileList \in FileLists : processFiles(fileList)
    /\ UNCHANGED <<panelShown, notLoadVars>>

\* handleDrop: the drop zone takes a drop whatever isLoading is
HandleDrop ==
    /\ panelShown
    /\ \E fileList \in FileLists : processFiles(fileList)
    /\ UNCHANGED <<panelShown, notLoadVars>>

\* result.results.find(r => r.fileName === f.name)
FindFileResult(fileResults, name) ==
    LET hits == {i \in 1..Len(fileResults) : fileResults[i].fileName = name}
    IN  IF hits = {} THEN Null
        ELSE Some(fileResults[CHOOSE i \in hits : \A j \in hits : i <= j])

\* setFiles(prev => prev.map(f => fileResult ? {...f, status} : f))
MarkResults(fileStates, fileResults) ==
    [i \in 1..Len(fileStates) |->
        LET found == FindFileResult(fileResults, fileStates[i].name)
        IN  IF IsNull(found) THEN fileStates[i]
            ELSE [fileStates[i] EXCEPT
                    !.status = IF Val(found).success THEN "success" ELSE "error"]]

\* setFiles(prev => prev.map(f => f.status === 'uploading' ? {...f, status: 'error'} : f))
MarkUploadingAsError(fileStates) ==
    [i \in 1..Len(fileStates) |->
        IF fileStates[i].status = "uploading"
        THEN [fileStates[i] EXCEPT !.status = "error"]
        ELSE fileStates[i]]

\* the request i completes: its state, and, when the page stops showing the
\* component, the end of the component that started the requests so far
Settle(i, unmounts) ==
    [j \in 1..Len(fetches) |->
        [files |-> fetches[j].files,
         state |-> IF j = i THEN "settled" ELSE fetches[j].state,
         mounted |-> fetches[j].mounted /\ ~unmounts]]

\* the response has success: the statuses are set by file name (setFiles of a
\* component that is gone does nothing), the results go to onUploadComplete,
\* which hides the component when it merged a number; finally the flag is
\* cleared
UploadSucceeds ==
    \E i \in InFlight :
        \E parsed \in SUBSET (1..Len(fetches[i].files)) :
            \E hasNumbers \in {h \in BOOLEAN : h => parsed # {}} :
                LET fileResults == [j \in 1..Len(fetches[i].files) |->
                                      [fileName |-> fetches[i].files[j],
                                       success |-> j \in parsed]]
                    unmounts == hasNumbers /\ panelShown
                IN  /\ uploadedFiles' =
                           IF unmounts THEN <<>>
                           ELSE IF fetches[i].mounted
                                THEN MarkResults(uploadedFiles, fileResults)
                                ELSE uploadedFiles
                    /\ panelShown' = IF hasNumbers THEN FALSE ELSE panelShown
                    /\ fetches' = Settle(i, unmounts)
                    /\ isLoading' = FALSE
                    /\ UNCHANGED notLoadVars

\* the response has no success, or fetch or response.json() throws: every file
\* still 'uploading' becomes 'error'; finally the flag is cleared
UploadFails ==
    \E i \in InFlight :
        /\ uploadedFiles' = IF fetches[i].mounted THEN MarkUploadingAsError(uploadedFiles)
                            ELSE uploadedFiles
        /\ fetches' = Settle(i, FALSE)
        /\ isLoading' = FALSE
        /\ UNCHANGED <<panelShown, notLoadVars>>

\* removeFile(fileName)
RemoveFile ==
    /\ panelShown
    /\ \E i \in 1..Len(uploadedFiles) :
          uploadedFiles' = SelectSeq(uploadedFiles, LAMBDA f : f.name # uploadedFiles[i].name)
    /\ UNCHANGED <<isLoading, fetches, panelShown, notLoadVars>>

\* clearAll()
ClearAll ==
    /\ panelShown
    /\ uploadedFiles # <<>>
    /\ uploadedFiles' = <<>>
    /\ UNCHANGED <<isLoading, fetches, panelShown, notLoadVars>>

\* the page's button: setShowUpload(true); the component starts afresh
ShowUploadAgain ==
    /\ ~panelShown
    /\ panelShown' = TRUE
    /\ UNCHANGED <<isLoading, uploadedFiles, fetches, notLoadVars>>

LoadNext ==
    \/ HandleFileInput
    \/ HandleDrop
    \/ UploadSucceeds
    \/ UploadFails
    \/ RemoveFile
    \/ ClearAll
    \/ ShowUploadAgain

-----------------------------------------------------------------------------
(* Specification SpecRegister: POST /api/auth/register. A request runs     *)
(* from `await request.json()` to `await bcrypt.hash` in one step and from  *)
(* there to its response in another; requests interleave at the await       *)

MaxRequests == 2

EmailLower == <<"a", "@", "x", ".", "c", "m">>
EmailUpper == <<"A", "@", "x", ".", "c", "m">>
EmailOther == <<"b", "@", "x", ".", "c", "m">>
StrName == <<"A", "d", "a">>
PasswordOk == <<"s", "e", "c", "r", "e", "t">>
PasswordShort == <<"s", "h", "o", "r", "t">>

Credentials(name, email, password) == [name |-> name, email |-> email, password |-> password]

\* the bodies a client may post; Null is a body that is no JSON
RegisterBodies ==
    {Some(Credentials(StrName, EmailLower, PasswordOk)),
     Some(Credentials(StrName, EmailUpper, PasswordOk)),
     Some(Credentials(StrName, EmailOther, PasswordOk)),
     Some(Credentials(StrName, EmailLower, PasswordShort)),
     Some(Credentials(<<>>, EmailLower, PasswordOk)),
     Some(Credentials(StrName, <<>>, PasswordOk)),
     Some(Credentials(StrName, EmailOther, <<>>)),
     Null}

\* users.json does not exist before the first request reads it
RegIdle ==
    /\ usersFile = Null
    /\ registrations = <<>>

RegInit ==
    /\ usersFile = Null
    /\ registrations = <<>>

\* a request arrives
ReceiveRegister ==
    /\ Len(registrations) < MaxRequests
    /\ \E body \in RegisterBodies :
          registrations' = Append(registrations,
              [body |-> body, rpc |-> "received", users |-> <<>>, status |-> 0])
    /\ UNCHANGED <<usersFile, notRegVars>>

\* getUsers(): the file is created empty when it does not exist
getUsers(file) == IF IsNull(file) THEN <<>> ELSE Val(file)

\* faulty variant: the emails are compared as they are written
FindByEmail_CaseSensitive(users, email) ==
    LET hits == {k \in 1..Len(users) : users[k].email = email}
    IN  IF hits = {} THEN Null ELSE Some(users[CHOOSE k \in hits : \A j \in hits : k <= j])

\* users.find(u => u.email.toLowerCase() === email.toLowerCase())
FindByEmail(users, email) ==
    LET hits == {k \in 1..Len(users) : ToLowerCase(users[k].email) = ToLowerCase(email)}
    IN  IF hits = {} THEN Null ELSE Some(users[CHOOSE k \in hits : \A j \in hits : k <= j])

Answer(i, status) ==
    registrations' = [registrations EXCEPT ![i].rpc = "responded", ![i].status = status]

\* from the start of POST to `await bcrypt.hash(password, 10)`: the body is
\* read and validated, the users are read and searched for the email
CheckRegister ==
    \E i \in 1..Len(registrations) :
        /\ registrations[i].rpc = "received"
        /\ LET body == registrations[i].body
           IN  IF IsNull(body)
               THEN Answer(i, 500) /\ UNCHANGED usersFile
               ELSE IF Val(body).name = <<>> \/ Val(body).email = <<>> \/ Val(body).password = <<>>
               THEN Answer(i, 400) /\ UNCHANGED usersFile
               ELSE IF Len(Val(body).password) < 6
               THEN Answer(i, 400) /\ UNCHANGED usersFile
               ELSE /\ usersFile' = Some(getUsers(usersFile))
                    /\ IF ~IsNull(FindByEmail(getUsers(usersFile), Val(body).email))
                       THEN Answer(i, 400)
                       ELSE registrations' = [registrations EXCEPT
                                ![i].rpc = "hashing", ![i].users = getUsers(usersFile)]
        /\ UNCHANGED notRegVars

\* from the end of bcrypt.hash to the response: the new user is pushed on the
\* list read before the await and the list is written to the file
SaveRegister ==
    \E i \in 1..Len(registrations) :
        /\ registrations[i].rpc = "hashing"
        /\ LET newUser == [id |-> i, name |-> Val(registrations[i].body).name,
                           email |-> ToLowerCase(Val(registrations[i].body).email)]
           IN  usersFile' = Some(Append(registrations[i].users, newUser))
        /\ Answer(i, 200)
        /\ UNCHANGED notRegVars

RegNext == ReceiveRegister \/ CheckRegister \/ SaveRegister

-----------------------------------------------------------------------------
(* Specifications *)

InitNorm ==
    NormInit /\ AggIdle /\ PostIdle /\ LocIdle /\ ColsIdle /\ MergeIdle /\ SheetsIdle /\ SubsIdle
        /\ LoadIdle /\ RegIdle
SpecNorm == InitNorm /\ [][NormNext]_vars

InitAgg ==
    NormIdle /\ AggInit /\ PostIdle /\ LocIdle /\ ColsIdle /\ MergeIdle /\ SheetsIdle /\ SubsIdle
        /\ LoadIdle /\ RegIdle
SpecAgg == InitAgg /\ [][AggNext]_vars

InitParse ==
    NormIdle /\ ParseInit /\ PostIdle /\ LocIdle /\ ColsIdle /\ MergeIdle /\ SheetsIdle /\ SubsIdle
        /\ LoadIdle /\ RegIdle
SpecParse == InitParse /\ [][ParseNext]_vars

InitUpload ==
    NormIdle /\ AggIdle /\ PostInit /\ LocIdle /\ ColsIdle /\ MergeIdle /\ SheetsIdle /\ SubsIdle
        /\ LoadIdle /\ RegIdle
SpecUpload == InitUpload /\ [][PostNext]_vars

InitLoc ==
    NormIdle /\ AggIdle /\ PostIdle /\ LocInit /\ ColsIdle /\ MergeIdle /\ SheetsIdle /\ SubsIdle
        /\ LoadIdle /\ RegIdle
SpecLoc == InitLoc /\ [][LocNext]_vars

InitCols ==
    NormIdle /\ AggIdle /\ PostIdle /\ LocIdle /\ ColsInit /\ MergeIdle /\ SheetsIdle /\ SubsIdle
        /\ LoadIdle /\ RegIdle
SpecCols == InitCols /\ [][ColsNext]_vars


InitMerge ==
    NormIdle /\ AggIdle /\ PostIdle /\ LocIdle /\ ColsIdle /\ MergeInit /\ SheetsIdle /\ SubsIdle
        /\ LoadIdle /\ RegIdle
SpecMerge == InitMerge /\ [][MergeNext]_vars

InitSheets ==
    NormIdle /\ AggIdle /\ PostIdle /\ LocIdle /\ ColsIdle /\ MergeIdle /\ SheetsInit /\ SubsIdle
        /\ LoadIdle /\ RegIdle
SpecSheets == InitSheets /\ [][SheetsNext]_vars

InitSubs ==
    NormIdle /\ AggIdle /\ PostIdle /\ LocIdle /\ ColsIdle /\ MergeIdle /\ SheetsIdle /\ SubsInit
        /\ LoadIdle /\ RegIdle
SpecSubs == InitSubs /\ [][SubsNext]_vars


InitLoading ==
    NormIdle /\ AggIdle /\ PostIdle /\ LocIdle /\ ColsIdle /\ MergeIdle /\ SheetsIdle /\ SubsIdle
        /\ LoadInit /\ RegIdle
SpecLoading == InitLoading /\ [][LoadNext]_vars

InitRegister ==
    NormIdle /\ AggIdle /\ PostIdle /\ LocIdle /\ ColsIdle /\ MergeIdle /\ SheetsIdle /\ SubsIdle
        /\ LoadIdle /\ RegInit
SpecRegister == InitRegister /\ [][RegNext]_vars

-----------------------------------------------------------------------------
(* Operators shared by the properties *)

\* the least and the greatest element of a non-empty set of integers
Minimum(set) == CHOOSE i \in set : \A j \in set : i <= j
Maximum(set) == CHOOSE i \in set : \A j \in set : j <= i

-----------------------------------------------------------------------------
(* Properties of aggregateByPhoneNumber (SpecAgg) *)

Entries == 1..Len(phoneMap)
Keys == {phoneMap[k].number : k \in Entries}

\* C1: once aggregateByPhoneNumber has returned, the keys of the map are exactly
\* the caller numbers of at least 6 characters, no key occurs twice, every record
\* of an aggregate has the aggregate's key as caller number, and a record whose
\* caller number is empty or shorter is in no aggregate (a number that only
\* occurs as called number is no key).
C1_KeysAreCallerNumbers ==
    pc = "done" =>
        /\ Keys = {records[i].callerNumber :
                      i \in {j \in 1..Len(records) : Len(records[j].callerNumber) >= 6}}
        /\ \A k, l \in Entries : phoneMap[k].number = phoneMap[l].number => k = l
        /\ \A k \in Entries : \A j \in 1..Len(phoneMap[k].records) :
              phoneMap[k].records[j].callerNumber = phoneMap[k].number
        /\ \A i \in 1..Len(records) :
              Len(records[i].callerNumber) < 6 =>
                  \A k \in Entries : \A j \in 1..Len(phoneMap[k].records) :
                      phoneMap[k].records[j].id # records[i].id

C1_Witness ==
    /\ pc = "done"
    /\ phoneMap # <<>>
    /\ \E i \in 1..Len(records) :
          /\ records[i].callerNumber = <<>>
          /\ Len(records[i].calledNumber) >= 6
          /\ records[i].calledNumber \notin Keys
    /\ \E i \in 1..Len(records) : Len(records[i].callerNumber) = 6

SmsIgnoringCase(d) ==
    Len(d) = 3 /\ d[1] \in {"S", "s"} /\ d[2] \in {"M", "m"} /\ d[3] \in {"S", "s"}

SmsRecords(e) == {j \in 1..Len(e.records) : SmsIgnoringCase(e.records[j].duration)}

\* C2: in every returned aggregate smsCount is the number of its records whose
\* duration is "SMS" in any letter case, callCount the number of the others, so
\* the two counts add up to the length of the record list.
C2_CountsMatchRecords ==
    pc = "done" =>
        \A k \in Entries :
            /\ phoneMap[k].smsCount = Cardinality(SmsRecords(phoneMap[k]))
            /\ phoneMap[k].callCount =
                  Len(phoneMap[k].records) - Cardinality(SmsRecords(phoneMap[k]))
            /\ phoneMap[k].callCount + phoneMap[k].smsCount = Len(phoneMap[k].records)

C2_Witness ==
    /\ pc = "done"
    /\ \E k \in Entries :
          /\ phoneMap[k].smsCount >= 1
          /\ phoneMap[k].callCount >= 1
          /\ \E j \in 1..Len(phoneMap[k].records) :
                phoneMap[k].records[j].duration \in {StrSms, Strsms}

Timestamps(e) ==
    {Val(e.records[j].dateTime) :
        j \in {i \in 1..Len(e.records) : ~IsNull(e.records[i].dateTime)}}

\* C3: in every returned aggregate firstActivity is the smallest and lastActivity
\* the largest timestamp of its records, and both are null exactly when none of
\* its records has a timestamp.
C3_ActivityWindow ==
    pc = "done" =>
        \A k \in Entries :
            LET e == phoneMap[k]
            IN  IF Timestamps(e) = {}
                THEN IsNull(e.firstActivity) /\ IsNull(e.lastActivity)
                ELSE /\ ~IsNull(e.firstActivity) /\ ~IsNull(e.lastActivity)
                     /\ Val(e.firstActivity) \in Timestamps(e)
                     /\ Val(e.lastActivity) \in Timestamps(e)
                     /\ \A t \in Timestamps(e) :
                           Val(e.firstActivity) <= t /\ t <= Val(e.lastActivity)

C3_Witness ==
    /\ pc = "done"
    /\ \E k \in Entries :
          /\ ~IsNull(phoneMap[k].firstActivity)
          /\ Val(phoneMap[k].firstActivity) < Val(phoneMap[k].lastActivity)
    /\ \E k \in Entries :
          /\ phoneMap[k].records # <<>>
          /\ IsNull(phoneMap[k].firstActivity)
          /\ IsNull(phoneMap[k].lastActivity)

\* the records folded into the aggregate keyed by number, in input order
FoldedIds(number) ==
    {records[i].id : i \in {j \in 1..Len(records) : records[j].callerNumber = number}}

Near(a, b) ==
    /\ Abs(a.latitude - b.latitude) < Epsilon
    /\ Abs(a.longitude - b.longitude) < Epsilon

NoNearDuplicates(locs) ==
    \A i, j \in 1..Len(locs) : i # j => ~Near(locs[i], locs[j])

\* the step folds a record whose location is inside the box of a listed one
FoldsNearDuplicate ==
    /\ pc = "fold"
    /\ pos <= Len(records)
    /\ ~IsNull(records[pos].location)
    /\ \E k \in Entries :
          /\ phoneMap[k].number = records[pos].callerNumber
          /\ \E i \in 1..Len(phoneMap[k].locations) :
                Near(phoneMap[k].locations[i], Val(records[pos].location))

\* C6: no location list ever holds two entries inside each other's epsilon box,
\* and folding a record whose location is inside the box of a listed location
\* leaves the location list as it is while the record is counted and appended.
C6_LocationDedup ==
    /\ [](\A k \in Entries : NoNearDuplicates(phoneMap[k].locations))
    /\ [][FoldsNearDuplicate =>
            \E k \in Entries :
                /\ phoneMap[k].number = records[pos].callerNumber
                /\ phoneMap'[k].locations = phoneMap[k].locations
                /\ phoneMap'[k].records = Append(phoneMap[k].records, records[pos])
                /\ phoneMap'[k].callCount + phoneMap'[k].smsCount =
                      phoneMap[k].callCount + phoneMap[k].smsCount + 1]_vars

C6_Witness ==
    /\ pc = "done"
    /\ \E k \in Entries :
          /\ Len(phoneMap[k].locations) = 1
          /\ \E i, j \in 1..Len(phoneMap[k].records) :
                /\ ~IsNull(phoneMap[k].records[i].location)
                /\ ~IsNull(phoneMap[k].records[j].location)
                /\ phoneMap[k].records[i].location # phoneMap[k].records[j].location


\* every order in which the records of the run can be folded
Orders ==
    {p \in [1..Len(records) -> 1..Len(records)] :
        \A i, j \in 1..Len(records) : p[i] = p[j] => i = j}

Reordered(p) == [i \in 1..Len(records) |-> records[p[i]]]

\* the locations carried by the records of one caller number
LocationsOf(number) ==
    {Val(records[i].location) : i \in {j \in 1..Len(records) :
        /\ records[j].callerNumber = number
        /\ ~IsNull(records[j].location)}}

\* being inside each other's epsilon box is transitive among the locations
TransitiveBox(locs) ==
    \A a, b, c \in locs : (Near(a, c) /\ Near(c, b)) => Near(a, b)

\* the aggregate of number has as many locations in every order of the records
SameLocationCount(k) ==
    \A p \in Orders :
        LET other == aggregateByPhoneNumber(Reordered(p), subscribers)
        IN  \E j \in 1..Len(other) :
                /\ other[j].number = phoneMap[k].number
                /\ Len(other[j].locations) = Len(phoneMap[k].locations)

-----------------------------------------------------------------------------
(* Properties of normalizePhoneNumber (SpecNorm) *)

\* C7: normalizePhoneNumber applied to its own result gives that result again.
C7_Idempotent == npc = "twice" => twice = once

\* index of the first character of s that is no white space (Len(s) + 1: none)
FirstInk(s) ==
    IF \E i \in 1..Len(s) : ~IsSpace(s[i])
    THEN CHOOSE i \in 1..Len(s) : ~IsSpace(s[i]) /\ \A j \in 1..(i - 1) : IsSpace(s[j])
    ELSE Len(s) + 1

\* the digits of s, without the three characters 2 3 7 when they are the first
\* characters of s that are no white space
DigitsAfterPrefix(s) ==
    LET i == FirstInk(s)
        prefixed == i + 2 <= Len(s) /\ s[i] = "2" /\ s[i + 1] = "3" /\ s[i + 2] = "7"
        from == IF prefixed THEN i + 3 ELSE i
    IN  SelectSeq(SubSeq(s, from, Len(s)), IsDigit)

\* C8 as stated: an absent or empty input gives the empty string and every other
\* input the digits of its trimmed string form, a leading "237" removed.
C8_AsStated ==
    npc # "input" =>
        once = IF phone.kind = "absent" \/ (phone.kind = "str" /\ phone.str = <<>>)
               THEN <<>>
               ELSE DigitsAfterPrefix(ToStr(phone))

\* C8: the result holds decimal digits only; an absent or empty input, and also
\* the number 0, gives the empty string; every other input gives the digits of
\* its trimmed string form, a leading "237" removed ("237699123456" and
\* "699-123-456" both give "699123456").
C8_DigitsOnly ==
    npc # "input" =>
        /\ \A i \in 1..Len(once) : IsDigit(once[i])
        /\ once = IF Falsy(phone) THEN <<>> ELSE DigitsAfterPrefix(ToStr(phone))
        /\ phone \in {StrCell(Str237699123456), StrCell(Str699_123_456)}
              => once = Str699123456

C8_Witness ==
    /\ npc = "once"
    /\ phone.kind = "str"
    /\ phone.str # <<>>
    /\ IsSpace(phone.str[1])
    /\ StartsWith(Trim(phone.str), CountryPrefix)
    /\ once = <<"6">>

-----------------------------------------------------------------------------
(* Properties of the upload handler (SpecUpload) *)

\* the name ends in .xlsx or .xls, letter case ignored
HasExcelExtension(name) ==
    \E ext \in {ExtXlsx, ExtXls} :
        /\ Len(name) >= Len(ext)
        /\ \A i \in 1..Len(ext) :
              LowerChar(name[Len(name) - Len(ext) + i]) = ext[i]

\* C9: for a non-empty batch the response has one entry per submitted file, in
\* submission order, with the file's name and either success with data or
\* failure with an error; a file that cannot be read or parsed gets a failure
\* entry of its own, no file is read or parsed twice, and every other file is
\* still processed.
C9_OneEntryPerFile ==
    (hpc = "responded" /\ request.parsable /\ request.files # <<>>) =>
        /\ response.status = 200
        /\ response.success
        /\ Len(response.results) = Len(request.files)
        /\ \A i \in 1..Len(request.files) :
              LET e == response.results[i]
                  f == request.files[i]
              IN  /\ e.fileName = f.name
                  /\ e.success <=> (HasExcelExtension(f.name) /\ f.content = "ok")
                  /\ e.body = IF e.success THEN "data"
                              ELSE IF HasExcelExtension(f.name) THEN "error: parsing"
                              ELSE "error: unsupported format"
                  /\ reads[i] <= 1
                  /\ parses[i] <= 1
                  /\ HasExcelExtension(f.name) => reads[i] = 1
                  /\ (HasExcelExtension(f.name) /\ f.content # "unreadable") => parses[i] = 1

C9_Witness ==
    /\ hpc = "responded"
    /\ Len(response.results) = 3
    /\ response.results[1].success
    /\ ~response.results[2].success
    /\ files[2].content = "corrupt"
    /\ response.results[3].success
    /\ parses = <<1, 1, 1>>

\* C10: a file whose name does not end in .xlsx or .xls is never read nor handed
\* to parseExcelFile and gets a failure entry, and the files after it are still
\* processed.
C10_OtherExtensionsNeverParsed ==
    /\ \A i \in 1..Len(files) :
          ~HasExcelExtension(files[i].name) =>
              /\ reads[i] = 0
              /\ parses[i] = 0
              /\ i < fileIdx => ~results[i].success
    /\ (hpc = "responded" /\ response.status = 200) =>
          /\ Len(response.results) = Len(files)
          /\ \A i \in 1..Len(files) : HasExcelExtension(files[i].name) => reads[i] = 1

C10_Witness ==
    /\ hpc = "responded"
    /\ \E i, j \in 1..Len(files) :
          /\ i < j
          /\ ~HasExcelExtension(files[i].name)
          /\ ~response.results[i].success
          /\ parses[j] = 1
          /\ response.results[j].success

-----------------------------------------------------------------------------
(* Properties of parseLocationString (SpecLoc) *)

\* the token parses as a number: it starts with a decimal literal, an optional
\* '-' followed by digits or by '.' and a digit
ParsesAsNumber(tok) ==
    LET rest == IF tok # <<>> /\ tok[1] = "-" THEN Tail(tok) ELSE tok
    IN  \/ rest # <<>> /\ IsDigit(rest[1])
        \/ Len(rest) >= 2 /\ rest[1] = "." /\ IsDigit(rest[2])

\* -90 <= latitude <= 90 and -180 <= longitude <= 180
InGeographicRange(loc) ==
    /\ 0 - 90 * 20000 <= loc.latitude /\ loc.latitude <= 90 * 20000
    /\ 0 - 180 * 20000 <= loc.longitude /\ loc.longitude <= 180 * 20000

NoLocationText(s) ==
    s = <<>> \/ s = <<"-", "-">> \/ s = StrSiteInconnu \/ \A i \in 1..Len(s) : IsSpace(s[i])

-----------------------------------------------------------------------------
(* Properties of identifyColumns (SpecCols) *)

Roles ==
    {"locationCol", "imeiCol", "callerNumberCol", "calledNumberCol", "dateCol",
     "durationCol"}

\* the rules in their fixed order: 1 localisation, 2 imei, 3 caller, 4 called,
\* 5 date, 6 duree
RuleOrder ==
    <<"locationCol", "imeiCol", "callerNumberCol", "calledNumberCol", "dateCol",
      "durationCol">>

RuleMatches(k, header) ==
    LET n == normalizeString(header)
    IN  CASE k = 1 -> Includes(n, StrLocalisation)
          [] k = 2 -> Includes(n, StrImei)
          [] k = 3 -> StartsWith(n, StrNumeroAppelant) \/ StartsWith(n, StrNumeroEmetteur)
          [] k = 4 -> StartsWith(n, StrNumeroAppele) \/ StartsWith(n, StrNumeroRecepteur)
          [] k = 5 -> Includes(n, StrDate)
          [] k = 6 -> Includes(n, StrDuree)

\* the header is classified into the role of rule k: rule k matches it and no
\* earlier rule does
ClassifiedBy(k, header) ==
    RuleMatches(k, header) /\ \A l \in 1..(k - 1) : ~RuleMatches(l, header)

\* C19: every header that identifyColumns returns for a role is one of the
\* headers, is returned for the role of the first rule that matches it and for no
\* other role; a header containing 'localisation' is returned as the location
\* column or not at all, and a header matching no rule is returned for no role
C19_FirstRuleClassifies ==
    cpc = "done" =>
        /\ \A k \in 1..6 :
              ~IsNull(colRoles[RuleOrder[k]]) =>
                  /\ \E i \in 1..Len(headerList) : headerList[i] = Val(colRoles[RuleOrder[k]])
                  /\ ClassifiedBy(k, Val(colRoles[RuleOrder[k]]))
        /\ \A r1, r2 \in Roles :
              ~IsNull(colRoles[r1]) /\ colRoles[r1] = colRoles[r2] => r1 = r2
        /\ \A i \in 1..Len(headerList) :
              /\ RuleMatches(1, headerList[i]) =>
                    \A r \in Roles \ {"locationCol"} : colRoles[r] # Some(headerList[i])
              /\ (\A k \in 1..6 : ~RuleMatches(k, headerList[i])) =>
                    \A r \in Roles : colRoles[r] # Some(headerList[i])

\* 'Date localisation IMEI' is returned as the location column although it also
\* contains 'date' and 'imei', next to a header that matches no rule
C19_Witness ==
    /\ cpc = "done"
    /\ colRoles.locationCol = Some(HdrDateLocalisationImei)
    /\ IsNull(colRoles.dateCol)
    /\ IsNull(colRoles.imeiCol)
    /\ \E i \in 1..Len(headerList) : headerList[i] = HdrLeNumeroAppelant

-----------------------------------------------------------------------------
(* Properties of parseExcelFile (SpecParse) *)

\* what parseExcelFile finds for both passes: whether the workbook has the
\* sheet, its rows and its identified columns
PassInfo ==
    LET found == findListingSheets(SheetNames(workbook))
        Info(name) ==
            IF IsNull(name) THEN [present |-> FALSE, data |-> NoSheet, cols |-> NoColumns]
            ELSE [present |-> TRUE, data |-> SheetNamed(workbook, Val(name)),
                  cols |-> ListingColumns(SheetNamed(workbook, Val(name)))]
    IN  [calls |-> Info(found.calls), sms |-> Info(found.sms)]

\* the number of rows of the pass that parseListingSheet has gone through
Processed(pass, all) ==
    IF pass = "calls"
    THEN (IF pc = "calls" THEN 0 ELSE IF pc = "parse" THEN pos - 1 ELSE all)
    ELSE (IF pc \in {"calls", "parse", "sms"} THEN 0
          ELSE IF pc = "parseSms" THEN pos - 1 ELSE all)

\* the text of the row's cell in the column, '' without a column
ColumnText(col, row) == IF IsNull(col) THEN <<>> ELSE CellText(row[Val(col)])

\* what the row's cell in the column normalizes to as a number
ColumnDigits(col, row) == IF IsNull(col) THEN <<>> ELSE normalizePhoneNumber(row[Val(col)])

HasNumber(found, row) ==
    \/ ColumnDigits(found.callerNumberCol, row) # <<>>
    \/ ColumnDigits(found.calledNumberCol, row) # <<>>

RecordsOf(pass, i) == {j \in 1..Len(records) : records[j].id = [pass |-> pass, row |-> i]}

\* the record's sheet has a date column and parseExcelDate gives null on the
\* cell of the record's row
DateUnparseable(info, r) ==
    LET dateCol == info[r.id.pass].cols.dateCol
    IN  /\ ~IsNull(dateCol)
        /\ IsNull(parseExcelDate(info[r.id.pass].data.rows[r.id.row][Val(dateCol)]))

\* C4: a row whose date cell cannot be parsed is still extracted, its record has
\* a null timestamp (no instant is stored in its place), and an aggregate whose
\* rows all have unparseable dates ends with firstActivity = lastActivity = null.
C4_UnparseableDateStaysNull ==
    LET info == PassInfo
    IN  /\ \A j \in 1..Len(records) :
              DateUnparseable(info, records[j]) => IsNull(records[j].dateTime)
        /\ pc = "done" =>
              \A k \in Entries :
                  (\A j \in 1..Len(phoneMap[k].records) :
                        DateUnparseable(info, phoneMap[k].records[j]))
                      => /\ IsNull(phoneMap[k].firstActivity)
                         /\ IsNull(phoneMap[k].lastActivity)

\* C16: every record has a non-empty caller or called number; a row of which
\* both numbers normalize to '' gives no record, every other row that
\* parseListingSheet has gone through gives exactly one, in the order of the
\* rows: a skipped row neither fails nor stops the extraction
C16_RecordsHaveANumber ==
    LET info == PassInfo
    IN  /\ \A j \in 1..Len(records) :
              records[j].callerNumber # <<>> \/ records[j].calledNumber # <<>>
        /\ \A pass \in {"calls", "sms"} :
              LET done == Processed(pass, Len(info[pass].data.rows))
              IN  /\ \A i \in 1..done :
                        Cardinality(RecordsOf(pass, i)) =
                            IF HasNumber(info[pass].cols, info[pass].data.rows[i])
                            THEN 1 ELSE 0
                  /\ \A j \in 1..Len(records) :
                        records[j].id.pass = pass => records[j].id.row <= done
        /\ \A j1, j2 \in 1..Len(records) :
              j1 < j2 /\ records[j1].id.pass = records[j2].id.pass
                  => records[j1].id.row < records[j2].id.row

\* a row without any number is skipped and the row after it is extracted
C16_Witness ==
    /\ pc = "sms"
    /\ Len(sheet.rows) = 2
    /\ ~HasNumber(sheetCols, sheet.rows[1])
    /\ Len(records) = 1
    /\ records[1].id.row = 2
    /\ records[1].callerNumber = <<>>

\* the passes are over and the SMS records have been stamped
Stamped == pc \in {"subscribers", "fold", "done", "reported"}

\* the text of the duration cell of the row the record was extracted from
DurationText(info, r) ==
    ColumnText(info[r.id.pass].cols.durationCol, info[r.id.pass].data.rows[r.id.row])

\* C15: once the SMS sheet is extracted, every record of the SMS sheet whose
\* duration cell is empty has duration 'SMS', before the first record is folded,
\* and every record of the calls sheet keeps the duration of its cell; in the
\* aggregates, a record counts in smsCount iff its duration is the SMS marker
\* and in callCount otherwise, so the stamped records are SMS and the calls
\* records with an empty duration are calls
C15_SmsStamping ==
    LET info == PassInfo
    IN  /\ ~Stamped => phoneMap = <<>>
        /\ Stamped =>
              \A j \in 1..Len(records) :
                  LET r == records[j]
                      text == DurationText(info, r)
                  IN  /\ r.id.pass = "sms" /\ text = <<>> => r.duration = StrSMS
                      /\ r.id.pass = "sms" /\ text # <<>> => r.duration = text
                      /\ r.id.pass = "calls" => r.duration = text
        /\ pc \in {"done", "reported"} =>
              \A k \in 1..Len(phoneMap) :
                  /\ \A j \in 1..Len(phoneMap[k].records) :
                        \E i \in 1..Len(records) : records[i] = phoneMap[k].records[j]
                  /\ phoneMap[k].smsCount =
                        Cardinality({j \in 1..Len(phoneMap[k].records) :
                            SmsIgnoringCase(phoneMap[k].records[j].duration)})
                  /\ phoneMap[k].callCount =
                        Cardinality({j \in 1..Len(phoneMap[k].records) :
                            ~SmsIgnoringCase(phoneMap[k].records[j].duration)})

\* one number has a calls record with an empty duration, counted as a call, and
\* an SMS record with an empty duration cell, stamped and counted as an SMS
C15_Witness ==
    /\ pc = "reported"
    /\ \E k \in 1..Len(phoneMap) :
          /\ phoneMap[k].callCount = 1
          /\ phoneMap[k].smsCount = 1
          /\ \E j \in 1..Len(phoneMap[k].records) :
                /\ phoneMap[k].records[j].id.pass = "calls"
                /\ phoneMap[k].records[j].duration = <<>>
          /\ \E j \in 1..Len(phoneMap[k].records) :
                /\ phoneMap[k].records[j].id.pass = "sms"
                /\ phoneMap[k].records[j].duration = StrSMS
                /\ DurationText(PassInfo, phoneMap[k].records[j]) = <<>>

\* the workbook has a sheet with one of the names
HasSheet(names) == \E i \in 1..Len(workbook) : workbook[i].name \in names

NoListingSheet == ~HasSheet({NameListingAppel, NameListingSms, NameListing})
NoIdentificationSheet == ~HasSheet({NameIdentification})

\* some row of the identification sheet has a number
NumberedSubscriberRow ==
    \E i \in 1..Len(workbook) :
        /\ workbook[i].name = NameIdentification
        /\ \E j \in 1..Len(workbook[i].data.rows) :
              normalizePhoneNumber(workbook[i].data.rows[j][HdrNumero]) # <<>>

\* some row of a listing sheet has a number
NumberedListingRow ==
    LET info == PassInfo
    IN  \E pass \in {"calls", "sms"} :
            \E i \in 1..Len(info[pass].data.rows) :
                HasNumber(info[pass].cols, info[pass].data.rows[i])

\* C17: parseExcelFile goes on to its end whatever sheets are missing (every
\* state before the report is a step of the function that can be taken), and the
\* handler reports success; without a listing sheet the records and the
\* aggregates are empty, without an identification sheet the subscribers are
\* empty, and the role that is present is still extracted
C17_MissingSheetsAreNoError ==
    /\ \/ pc \in {"calls", "sms", "subscribers", "done", "reported"}
       \/ pc \in {"parse", "parseSms"} /\ pos <= Len(sheet.rows) + 1
       \/ pc = "fold" /\ pos <= Len(records) + 1
    /\ IsNull(fileResult) \/ Val(fileResult).success
    /\ pc = "reported" =>
          /\ ~IsNull(fileResult)
          /\ NoListingSheet =>
                /\ records = <<>> /\ phoneMap = <<>>
                /\ Val(fileResult).data.allRecords = <<>>
                /\ Val(fileResult).data.phoneNumbers = <<>>
          /\ NoIdentificationSheet =>
                subscribers = <<>> /\ Val(fileResult).data.subscribers = <<>>
          /\ NumberedSubscriberRow => subscribers # <<>>
          /\ NumberedListingRow => records # <<>>

\* a workbook with an identification sheet and no listing sheet is reported as
\* a success with subscribers and without records
C17_Witness ==
    /\ pc = "reported"
    /\ NoListingSheet
    /\ ~NoIdentificationSheet
    /\ Val(fileResult).success
    /\ subscribers # <<>>
    /\ records = <<>>

\* the last header of the list that the rules classify into the role
LastClassified(headers, k) ==
    IF \E i \in 1..Len(headers) : ClassifiedBy(k, headers[i])
    THEN Some(headers[CHOOSE i \in 1..Len(headers) :
                          /\ ClassifiedBy(k, headers[i])
                          /\ \A j \in (i + 1)..Len(headers) : ~ClassifiedBy(k, headers[j])])
    ELSE Null

\* C20: each role gets the last header classified into it, or null when there is
\* none; in every record that parseListingSheet produces, the field of a role
\* without a column is empty, and the location and the date are null
C20_LastHeaderWinsNullRoleEmpty ==
    /\ pc \in {"parse", "parseSms"} /\ sheet.rows # <<>> =>
          \A k \in 1..6 : sheetCols[RuleOrder[k]] = LastClassified(sheet.headers, k)
    /\ pc \in {"parse", "parseSms"} =>
          \A j \in 1..Len(records) :
              LET r == records[j]
                  found == PassInfo[r.id.pass].cols
              IN  /\ IsNull(found.callerNumberCol) => r.callerNumber = <<>>
                  /\ IsNull(found.calledNumberCol) => r.calledNumber = <<>>
                  /\ IsNull(found.imeiCol) => r.imei = <<>>
                  /\ IsNull(found.durationCol) => r.duration = <<>>
                  /\ IsNull(found.locationCol) => IsNull(r.location)
                  /\ IsNull(found.dateCol) => IsNull(r.dateTime)


\* the positions of the subscribers whose number is exactly the number
SubscribersNumbered(number) == {i \in 1..Len(subscribers) : subscribers[i].number = number}

\* C24: an aggregate has an identity iff some subscriber has exactly its number,
\* and then the identity is the full name of the subscriber listed last with
\* that number: it is fixed by the number and the subscriber list alone, whatever
\* the records and their order, and is never the name of a subscriber with
\* another number
C24_IdentityByExactNumber ==
    pc \in {"fold", "done", "reported"} =>
        \A k \in 1..Len(phoneMap) :
            LET matches == SubscribersNumbered(phoneMap[k].number)
            IN  /\ IsNull(phoneMap[k].identity) <=> matches = {}
                /\ matches # {} =>
                      phoneMap[k].identity = Some(subscribers[Maximum(matches)].fullName)

\* two subscribers have the number of one aggregate, which has the name of the
\* one listed last, and another aggregate has no identity although a subscriber
\* has a number that starts with its number
C24_Witness ==
    /\ pc = "reported"
    /\ \E k \in 1..Len(phoneMap) :
          /\ Cardinality(SubscribersNumbered(phoneMap[k].number)) = 2
          /\ phoneMap[k].identity = Some(Trim(StrJean))
    /\ \E k \in 1..Len(phoneMap) :
          /\ IsNull(phoneMap[k].identity)
          /\ \E i \in 1..Len(subscribers) :
                StartsWith(subscribers[i].number, phoneMap[k].number)

\* how many records of the list satisfy the test
CountOf(recs, Test(_)) == Cardinality({j \in 1..Len(recs) : Test(recs[j])})

\* C26 as stated: smsCount is the number of the aggregate's records extracted
\* from the SMS sheet and callCount the number extracted from the calls sheet,
\* whatever the duration columns hold
C26_CountsBySheet ==
    pc \in {"done", "reported"} =>
        \A k \in 1..Len(phoneMap) :
            /\ phoneMap[k].smsCount =
                  CountOf(phoneMap[k].records, LAMBDA r : r.id.pass = "sms")
            /\ phoneMap[k].callCount =
                  CountOf(phoneMap[k].records, LAMBDA r : r.id.pass = "calls")

\* the record counts as an SMS by the cell it was extracted from: a cell of the
\* SMS sheet that is empty or holds the SMS marker, a cell of the calls sheet
\* that holds the SMS marker
MarkedSms(info, r) ==
    LET text == DurationText(info, r)
    IN  \/ SmsIgnoringCase(text)
        \/ r.id.pass = "sms" /\ text = <<>>

\* C26 amended: smsCount is the number of the aggregate's records whose duration
\* cell holds 'SMS' in any letter case, or is empty in the SMS sheet, and
\* callCount is the number of its other records
C26_CountsByMarker ==
    pc \in {"done", "reported"} =>
        LET info == PassInfo
        IN  \A k \in 1..Len(phoneMap) :
                /\ phoneMap[k].smsCount =
                      CountOf(phoneMap[k].records, LAMBDA r : MarkedSms(info, r))
                /\ phoneMap[k].callCount =
                      CountOf(phoneMap[k].records, LAMBDA r : ~MarkedSms(info, r))

\* every record of an aggregate comes from the SMS sheet, one with the duration
\* '0' and one with the duration 'sms': one call and one SMS are counted
C26_Witness ==
    /\ pc = "reported"
    /\ \E k \in 1..Len(phoneMap) :
          /\ Len(phoneMap[k].records) = 2
          /\ \A j \in 1..2 : phoneMap[k].records[j].id.pass = "sms"
          /\ \E j \in 1..2 : phoneMap[k].records[j].duration = <<"0">>
          /\ phoneMap[k].callCount = 1
          /\ phoneMap[k].smsCount = 1

-----------------------------------------------------------------------------
(* Properties of handleUploadComplete (SpecMerge) *)

\* the files of the upload that were reported as a success
SuccessfulFiles == {f \in 1..Len(uploadResults) : uploadResults[f].success}

\* the entries of the number in the file as it was received
EntriesOf(f, number) ==
    {k \in 1..Len(uploadResults[f].data.phoneNumbers) :
        uploadResults[f].data.phoneNumbers[k].number = number}

\* the sum of a count of the number over the successful files, as received
RECURSIVE SumOver(_, _, _)
SumOver(fileSet, number, count) ==
    IF fileSet = {} THEN 0
    ELSE LET f == CHOOSE g \in fileSet : TRUE
             here == IF EntriesOf(f, number) = {} THEN 0
                     ELSE uploadResults[f].data.phoneNumbers[
                              CHOOSE k \in EntriesOf(f, number) : TRUE][count]
         IN  here + SumOver(fileSet \ {f}, number, count)

\* the numbers that the successful files hold
NumbersOfFiles ==
    UNION {{uploadResults[f].data.phoneNumbers[k].number :
                k \in 1..Len(uploadResults[f].data.phoneNumbers)} : f \in SuccessfulFiles}

\* C11: after the merge, the merged list holds every number of the successful
\* files exactly once, with callCount and smsCount equal to the sums of the
\* number's counts over the successful files that contain it
C11_MergedCountsAreSums ==
    mpc = "merged" =>
        /\ \A i, j \in 1..Len(allPhoneNumbers) :
              allPhoneNumbers[i].number = allPhoneNumbers[j].number => i = j
        /\ {allPhoneNumbers[i].number : i \in 1..Len(allPhoneNumbers)} = NumbersOfFiles
        /\ \A i \in 1..Len(allPhoneNumbers) :
              /\ allPhoneNumbers[i].callCount =
                    SumOver(SuccessfulFiles, allPhoneNumbers[i].number, "callCount")
              /\ allPhoneNumbers[i].smsCount =
                    SumOver(SuccessfulFiles, allPhoneNumbers[i].number, "smsCount")
        /\ uploadedData = allPhoneNumbers

\* two files with one call record each for the same number, next to a failed
\* file, merge into callCount = 2
C11_Witness ==
    /\ mpc = "merged"
    /\ Len(uploadResults) = 3
    /\ Cardinality(SuccessfulFiles) = 2
    /\ \A f \in SuccessfulFiles :
          /\ Len(uploadResults[f].data.phoneNumbers) = 1
          /\ uploadResults[f].data.phoneNumbers[1].number = NumA
          /\ uploadResults[f].data.phoneNumbers[1].callCount = 1
    /\ Len(uploadedData) = 1
    /\ uploadedData[1].callCount = 2
    /\ uploadedData[1].smsCount = 0
    /\ ~showUpload

\* two locations inside one another's epsilon box
WithinEpsilon(l1, l2) ==
    /\ Abs(l1.latitude - l2.latitude) < Epsilon
    /\ Abs(l1.longitude - l2.longitude) < Epsilon

\* C12: after the merge, the location list of a number has no two entries whose
\* latitudes differ by less than epsilon and whose longitudes differ by less
\* than epsilon
C12_MergedLocationsEpsilonDistinct ==
    mpc = "merged" =>
        \A i \in 1..Len(allPhoneNumbers) :
            \A a, b \in 1..Len(allPhoneNumbers[i].locations) :
                WithinEpsilon(allPhoneNumbers[i].locations[a],
                              allPhoneNumbers[i].locations[b]) => a = b

\* how many times the record is in the list
Occurrences(recs, r) == Cardinality({j \in 1..Len(recs) : recs[j] = r})

\* how many times the record is in the lists of the number in the successful
\* files, as received
RECURSIVE OccurrencesInFiles(_, _, _)
OccurrencesInFiles(fileSet, number, r) ==
    IF fileSet = {} THEN 0
    ELSE LET f == CHOOSE g \in fileSet : TRUE
             here == IF EntriesOf(f, number) = {} THEN 0
                     ELSE Occurrences(uploadResults[f].data.phoneNumbers[
                                          CHOOSE k \in EntriesOf(f, number) : TRUE].records, r)
         IN  here + OccurrencesInFiles(fileSet \ {f}, number, r)

\* every record of the number in the successful files
RecordsInFiles(number) ==
    UNION {UNION {{uploadResults[f].data.phoneNumbers[k].records[j] :
                       j \in 1..Len(uploadResults[f].data.phoneNumbers[k].records)} :
                     k \in EntriesOf(f, number)} : f \in SuccessfulFiles}

\* C13: after the merge, the record list of each number holds every record of
\* the number from every successful file as many times as the files hold it, no
\* other record, and is in ascending order of the instants of the dates
C13_MergedRecordsCompleteAndSorted ==
    mpc = "merged" =>
        \A i \in 1..Len(allPhoneNumbers) :
            LET merged == allPhoneNumbers[i].records
                number == allPhoneNumbers[i].number
            IN  /\ \A j \in 1..Len(merged) : merged[j] \in RecordsInFiles(number)
                /\ \A r \in RecordsInFiles(number) :
                      Occurrences(merged, r) = OccurrencesInFiles(SuccessfulFiles, number, r)
                /\ \A j \in 1..Len(merged) : ~IsNull(MergeSortKey(merged[j]))
                /\ \A j \in 1..(Len(merged) - 1) :
                      Val(MergeSortKey(merged[j])) <= Val(MergeSortKey(merged[j + 1]))

\* three files hold records of one number, the file with the latest record comes
\* first and the same file comes twice: the merged list has the three records
\* in the order of their dates, the latest one last
C13_Witness ==
    /\ mpc = "merged"
    /\ Len(uploadResults) = 3
    /\ SuccessfulFiles = {1, 2, 3}
    /\ uploadResults[2] = uploadResults[3]
    /\ uploadResults[1].data.phoneNumbers # <<>>
    /\ uploadResults[1].data.phoneNumbers[1].number = NumA
    /\ \E i \in 1..Len(allPhoneNumbers) :
          /\ allPhoneNumbers[i].number = NumA
          /\ Len(allPhoneNumbers[i].records) = 3
          /\ allPhoneNumbers[i].records[1] = allPhoneNumbers[i].records[2]
          /\ allPhoneNumbers[i].records[3] = uploadResults[1].data.phoneNumbers[1].records[1]
          /\ allPhoneNumbers[i].records[3] # allPhoneNumbers[i].records[2]

\* C14: after the merge, every phone entry of every result passed in has the
\* callCount, the smsCount, the records and the locations it had before, and
\* merging the same results once more gives the same merged list
C14_InputsUnchanged ==
    mpc = "merged" =>
        /\ \A f \in SuccessfulFiles :
              \A k \in 1..Len(uploadResults[f].data.phoneNumbers) :
                  LET before == uploadResults[f].data.phoneNumbers[k]
                      after == resultsNow[f].data.phoneNumbers[k]
                  IN  /\ after.callCount = before.callCount
                      /\ after.smsCount = before.smsCount
                      /\ after.records = before.records
                      /\ after.locations = before.locations
        /\ MergedPhones(MergeResults([res |-> resultsNow, all |-> <<>>], 1)) = allPhoneNumbers


\* the instants of the records of a merged entry
MergedInstants(phoneData) ==
    {Val(MergeSortKey(phoneData.records[j])) : j \in 1..Len(phoneData.records)}

\* new Date(value).getTime() of a serialized activity bound; Null for a missing one
ActivityInstant(value) == IF IsNull(value) THEN Null ELSE IsoInstant(Val(value))

\* C25: after the merge, firstActivity and lastActivity of each merged entry are
\* the earliest and the latest instant over the records of its merged record
\* list
C25_MergedActivityWindow ==
    mpc = "merged" =>
        \A i \in 1..Len(allPhoneNumbers) :
            LET instants == MergedInstants(allPhoneNumbers[i])
            IN  instants # {} =>
                    /\ ActivityInstant(allPhoneNumbers[i].firstActivity) =
                          Some(Minimum(instants))
                    /\ ActivityInstant(allPhoneNumbers[i].lastActivity) =
                          Some(Maximum(instants))

-----------------------------------------------------------------------------
(* Properties of detectFileType and findListingSheets (SpecSheets) *)

\* the positions of the sheets whose normalized name contains the text
SheetsContaining(text) ==
    {i \in 1..Len(sheetNameList) : Includes(normalizeString(sheetNameList[i]), text)}

\* the positions of the sheets whose normalized name is exactly 'listing'
SheetsNamedListing ==
    {i \in 1..Len(sheetNameList) : normalizeString(sheetNameList[i]) = StrListing}

\* the name of the first sheet of the set, null for an empty set
FirstSheetOf(set) == IF set = {} THEN Null ELSE Some(sheetNameList[Minimum(set)])

\* C21: the calls sheet is the first sheet whose normalized name contains
\* 'listing appel', the SMS sheet the first whose normalized name contains
\* 'listing sms'; a sheet named exactly 'listing' is the calls sheet only when no
\* calls sheet has been found before it
C21_FirstListingSheetWins ==
    spc = "found" =>
        /\ Val(listingSheets).sms = FirstSheetOf(SheetsContaining(StrListingSms))
        /\ SheetsContaining(StrListingAppel) # {} =>
              Val(listingSheets).calls = FirstSheetOf(SheetsContaining(StrListingAppel))
        /\ SheetsContaining(StrListingAppel) = {} =>
              Val(listingSheets).calls = FirstSheetOf(SheetsNamedListing)

\* C22: the file type is NUMERO iff some normalized name contains 'listing appel'
\* or 'listing sms', else IMEI iff some normalized name contains 'imei partage',
\* else CC; the names count as a set, so the order of the sheets does not matter
C22_FileTypeBySheetNames ==
    spc \in {"typed", "found"} =>
        LET names == {normalizeString(sheetNameList[i]) : i \in 1..Len(sheetNameList)}
            listing == \E n \in names : Includes(n, StrListingAppel) \/ Includes(n, StrListingSms)
            imei == \E n \in names : Includes(n, StrImeiPartage)
        IN  /\ Val(fileType) = "NUMERO" <=> listing
            /\ Val(fileType) = "IMEI" <=> ~listing /\ imei
            /\ Val(fileType) = "CC" <=> ~listing /\ ~imei
            /\ Val(fileType) \in {"NUMERO", "IMEI", "CC"}

\* an 'IMEI Partagé' sheet comes before a 'listing sms' sheet and the type is
\* NUMERO
C22_Witness ==
    /\ spc = "typed"
    /\ Len(sheetNameList) = 2
    /\ sheetNameList[1] = NameImeiPartage
    /\ sheetNameList[2] = NameListingSmsBis
    /\ fileType = Some("NUMERO")

\* C27: when some normalized name contains 'listing appel', the calls sheet is a
\* sheet whose normalized name contains 'listing appel'; a sheet named exactly
\* 'listing' is the calls sheet only when no sheet contains 'listing appel'
C27_ListingAppelBeatsFallback ==
    spc = "found" =>
        LET calls == Val(listingSheets).calls
        IN  /\ SheetsContaining(StrListingAppel) # {} =>
                  /\ ~IsNull(calls)
                  /\ \E i \in SheetsContaining(StrListingAppel) : sheetNameList[i] = Val(calls)
            /\ (~IsNull(calls) /\ normalizeString(Val(calls)) = StrListing) =>
                  SheetsContaining(StrListingAppel) = {}

\* 'Listing' comes before 'Listing Appel' in one workbook and after it in
\* another; here it comes before, was taken first, and is replaced
C27_Witness ==
    /\ spc = "found"
    /\ Len(sheetNameList) = 3
    /\ sheetNameList[1] = NameListing
    /\ sheetNameList[2] = NameListingSms
    /\ sheetNameList[3] = NameListingAppel
    /\ Val(listingSheets).calls = Some(NameListingAppel)

-----------------------------------------------------------------------------
(* Properties of parseSubscribersSheet (SpecSubs) *)

\* the header supplies the phone number: its normalized form is 'numero', or
\* starts with 'numero' and does not contain 'cni'
IsPhoneHeader(header) ==
    LET n == normalizeString(header)
    IN  n = StrNumero \/ (StartsWith(n, StrNumero) /\ ~Includes(n, StrCni))

\* the positions of the phone headers of the sheet
PhoneColumns ==
    {i \in 1..Len(subsSheet.headers) : IsPhoneHeader(subsSheet.headers[i])}

\* the rows gone through that gave a subscriber, in order
RECURSIVE EmittingRows(_)
EmittingRows(n) ==
    IF n = 0 THEN <<>>
    ELSE EmittingRows(n - 1)
            \o (IF SubscriberRows(subsSheet.headers, <<subsSheet.rows[n]>>) # <<>>
                THEN <<n>> ELSE <<>>)

\* C23: every emitted subscriber has a non-empty number, which is the
\* normalized value of the first phone column of its row (a later phone column
\* never supplies or replaces it); a row gives no subscriber when its sheet has
\* no phone column
C23_NumberFromFirstPhoneColumn ==
    LET from == EmittingRows(bpos - 1)
    IN  /\ Len(subsOut) = Len(from)
        /\ \A k \in 1..Len(subsOut) :
              /\ subsOut[k].number # <<>>
              /\ PhoneColumns # {}
              /\ subsOut[k].number =
                    normalizePhoneNumber(
                        subsSheet.rows[from[k]][subsSheet.headers[Minimum(PhoneColumns)]])

-----------------------------------------------------------------------------
(* Properties of SpecLoading *)

\* C29: the loading flag is true whenever an upload request started by
\* processFiles has not completed yet.
C29_LoadingWhileInFlight == InFlight # {} => isLoading

-----------------------------------------------------------------------------
(* Properties of SpecRegister *)

StoredUsers == getUsers(usersFile)

SameEmail(a, b) == ToLowerCase(a) = ToLowerCase(b)

NoDuplicateEmails ==
    \A j, k \in 1..Len(StoredUsers) :
        SameEmail(StoredUsers[j].email, StoredUsers[k].email) => j = k

\* the requests answered with success
Accepted == {i \in 1..Len(registrations) : registrations[i].status = 200}

\* C30 as stated: the store never holds two users whose emails are equal
\* ignoring case, and of the registrations for one email, overlapping or not,
\* at most one is accepted.
C30_RegistrationsExclusive ==
    /\ NoDuplicateEmails
    /\ \A i, j \in Accepted :
          SameEmail(Val(registrations[i].body).email, Val(registrations[j].body).email)
              => i = j

\* the step reads the store for a request with valid fields
ReadsStore(i) ==
    /\ i \in 1..Len(registrations)
    /\ registrations[i].rpc = "received"
    /\ registrations'[i].rpc # "received"
    /\ ~IsNull(registrations[i].body)
    /\ Val(registrations[i].body).name # <<>>
    /\ Val(registrations[i].body).email # <<>>
    /\ Len(Val(registrations[i].body).password) >= 6

\* C30 amended: the store never holds two users whose emails are equal ignoring
\* case, and a registration for an email that is stored when the request reads
\* the store is rejected and adds no user.
C30_StoredEmailsUnique ==
    /\ []NoDuplicateEmails
    /\ [][\A i \in 1..MaxRequests :
            (/\ ReadsStore(i)
             /\ \E k \in 1..Len(StoredUsers) :
                   SameEmail(StoredUsers[k].email, Val(registrations[i].body).email))
                => /\ registrations'[i].status = 400
                   /\ getUsers(usersFile') = StoredUsers]_vars

\* a registration written in another case than the stored email was rejected
C30_Witness ==
    /\ Len(StoredUsers) = 1
    /\ \E i, j \in 1..Len(registrations) :
          /\ registrations[i].status = 200
          /\ registrations[j].status = 400
          /\ ~IsNull(registrations[j].body)
          /\ Val(registrations[j].body).email # Val(registrations[i].body).email
          /\ SameEmail(Val(registrations[j].body).email, Val(registrations[i].body).email)
          /\ Len(Val(registrations[j].body).password) >= 6
          /\ Val(registrations[j].body).name # <<>>

=============================================================================
